---- MODULE Spec2Model ----
(***************************************************************************)
(* transit-kindle: the stop-data acquisition and caching pipeline of       *)
(* src/src/api_client.rs.                                                  *)
(*                                                                         *)
(*  - the background refresh loop spawned by DataAccess::new, which calls  *)
(*    Client::load_stop_data every 180 s;                                  *)
(*  - the per-agency fan-out task Client::request_and_cache and the        *)
(*    blocking Client::store_cache it hands to the blocking pool;          *)
(*  - the cache file of each agency, written in place (File::create        *)
(*    truncates, serde_json::to_writer then issues one write per piece);   *)
(*  - the read path DataAccess::load_stop_data / Client::load_cached;      *)
(*  - the pure Client::transform_results.                                  *)
(*                                                                         *)
(* Strings are TLA+ strings, Option<String> is <<>> (None) or <<s>>        *)
(* (Some(s)).  Time is an integer clock whose unit is one sleep of the     *)
(* refresh loop.                                                           *)
(***************************************************************************)
EXTENDS Integers, Sequences, FiniteSets, TLC

\* ------------------------------------------------------------------ bounds

\* The clock runs 0..MaxTime and saturates there (the loop itself goes on).
MaxTime == 2

\* Longest feed response (monitored stop visits) of one request.
MaxFeedLen == 1

\* Blocking store_cache jobs that may be running on one agency's file at once.
MaxWriters == 1

\* ------------------------------------------------------------ configuration

None == << >>

Some(s) == << s >>

\* ConfigFile.stops: one StopConfig per agency.
Agencies == {"A", "B"}

\* line_prefix_subs is a HashMap<String, String>: prefix -> replacement.
\* Agency A has two rules, agency B none (#[serde(default)]).
StopConfigOf(a) ==
    [agency |-> a,
     stops |-> {"S1"},
     line_prefix_subs |-> IF a = "A" THEN [prefix \in {"71", "7"} |-> prefix \o "X"]
                          ELSE [prefix \in {} |-> ""]]

\* The orders in which iterating a HashMap can yield its entries: the order
\* follows the hashes under the map's RandomState, whose keys are drawn when
\* the map is built, so every order of the entries can come out.
RECURSIVE IterOrders(_)
IterOrders(m) ==
    IF DOMAIN m = {} THEN { << >> }
    ELSE UNION { { << << k, m[k] >> >> \o rest :
                     rest \in IterOrders([x \in DOMAIN m \ {k} |-> m[x]]) } : k \in DOMAIN m }

\* A MonitoredVehicleJourney (with its MonitoredCall flattened in).
Journey(line, dir, dest, eat, stop) ==
    [line_ref |-> line, direction_ref |-> dir, destination_name |-> dest,
     expected_arrival_time |-> eat, stop_point_ref |-> stop]

\* The journeys the remote feed answers with in the refresh model: one at a
\* configured stop, one at a stop nobody asked for.
FeedVisits ==
    { Journey(Some("7"), Some("IB"), Some("Downtown"), Some("2"), "S1"),
      Journey(Some("7"), Some("IB"), Some("Downtown"), Some("1"), "S9") }

RECURSIVE SeqsUpTo(_, _)
SeqsUpTo(S, n) ==
    IF n = 0 THEN { << >> }
    ELSE LET shorter == SeqsUpTo(S, n - 1)
         IN  shorter \cup { Append(s, x) : s \in { t \in shorter : Len(t) = n - 1 }, x \in S }

Feeds == SeqsUpTo(FeedVisits, MaxFeedLen)

Min(a, b) == IF a <= b THEN a ELSE b

\* ------------------------------------------------------------------- state

VARIABLES
    now,        \* Utc::now(), in sleeps of the refresh loop
    looppc,     \* the refresh loop: "start", "join" (in join_next), "sleep"
    tickres,    \* what the last Client::load_stop_data returned: "none", "ok", "err"
    upstream,   \* per agency: how the feed answers this tick's request
    task,       \* per agency: the fan-out task of this tick
    joined,     \* agencies whose task join_next has already handed out
    writers,    \* per agency: the store_cache jobs on the blocking pool
    file,       \* per path: the cache files .cache-{agency}.json
    log,        \* warn! entries of the current tick
    loadpc,     \* the request being served: "idle", or "join" inside DataAccess::load_stop_data
    rd,         \* per agency: the load_upcoming_from_cache task of that request
    ljoined,    \* agencies whose read task join_next has already handed out
    stopdata,   \* the StopData that request has merged so far
    loadres,    \* what the last DataAccess::load_stop_data returned
    prevres,    \* what the call before that returned, when the caller kept it
    resp,       \* what the handler of that request answered
    tin,        \* runs of one function: what is handed to transform_results or data_to_layout
    tout,       \* runs of one function: what it returned
    subs_iter   \* per agency: the order in which its line_prefix_subs iterates

refreshVars == << now, looppc, tickres, upstream, task, joined, writers, log >>

loadVars == << loadpc, rd, ljoined, stopdata, loadres, prevres, resp >>

transformVars == << tin, tout >>

configVars == << subs_iter >>

vars == << refreshVars, file, loadVars, transformVars, configVars >>

\* --------------------------------------------------------- the cache file

\* ---- timestamps as text

Digits == {"0", "1", "2", "3", "4", "5", "6", "7", "8", "9"}

DigitVal(c) ==
    CASE c = "0" -> 0 [] c = "1" -> 1 [] c = "2" -> 2 [] c = "3" -> 3 [] c = "4" -> 4
      [] c = "5" -> 5 [] c = "6" -> 6 [] c = "7" -> 7 [] c = "8" -> 8 [] c = "9" -> 9

\* expected_arrival_time.parse::<DateTime<Utc>>(): a timestamp is written as
\* a decimal count of clock units; anything else is a parse error.
ParsesAsTime(s) ==
    /\ Len(s) > 0
    /\ \A i \in 1..Len(s) : SubSeq(s, i, i) \in Digits

RECURSIVE ParseTime(_)
ParseTime(s) ==
    IF Len(s) = 0 THEN 0
    ELSE 10 * ParseTime(SubSeq(s, 1, Len(s) - 1)) + DigitVal(SubSeq(s, Len(s), Len(s)))

DigitChar(n) == SubSeq("0123456789", n + 1, n + 1)

\* Serialize for DateTime<Utc>: the timestamp written out as text.
RECURSIVE FormatTime(_)
FormatTime(t) ==
    IF t < 10 THEN DigitChar(t)
    ELSE FormatTime(t \div 10) \o DigitChar(t % 10)

\* ---- a snapshot as JSON

\* Option<String> written with unwrap_or_default: None goes out as "" and
\* comes back as Some("").
to_json_empty(opt) ==
    IF opt = None THEN [null |-> FALSE, str |-> ""] ELSE [null |-> FALSE, str |-> opt[1]]

\* Serialize for Option<String>: None is written as null, Some(s) as the string.
to_json(opt) ==
    IF opt = None THEN [null |-> TRUE, str |-> ""] ELSE [null |-> FALSE, str |-> opt[1]]

\* Deserialize for Option<String>.
from_json(v) == IF v.null THEN None ELSE Some(v.str)

\* #[derive(Serialize)] with rename_all = "PascalCase" on MonitoredVehicleJourney
\* and MonitoredCall.
SerializeJourney(j) ==
    [LineRef |-> to_json(j.line_ref),
     DirectionRef |-> to_json(j.direction_ref),
     DestinationName |-> to_json(j.destination_name),
     MonitoredCall |-> [ExpectedArrivalTime |-> to_json(j.expected_arrival_time),
                        StopPointRef |-> j.stop_point_ref]]

\* #[derive(Deserialize)] on the same two structs.
DeserializeJourney(v) ==
    Journey(from_json(v.LineRef), from_json(v.DirectionRef), from_json(v.DestinationName),
            from_json(v.MonitoredCall.ExpectedArrivalTime), v.MonitoredCall.StopPointRef)

\* serde_json::to_writer(file, &cached) writes the journeys, then live_time, as
\* a run of separate write calls: the file is the pieces written so far.
JTok(j) == [kind |-> "journey", journey |-> SerializeJourney(j), live_time |-> ""]

LTok(t) ==
    [kind |-> "live_time", journey |-> SerializeJourney(Journey(None, None, None, None, "")),
     live_time |-> FormatTime(t)]

NulTok ==
    [kind |-> "nul", journey |-> SerializeJourney(Journey(None, None, None, None, "")),
     live_time |-> ""]

Serialize(cached) ==
    [i \in 1..(Len(cached.journeys) + 1) |->
        IF i <= Len(cached.journeys) THEN JTok(cached.journeys[i])
        ELSE LTok(cached.live_time)]

\* serde_json::from_reader: journeys, then a live_time that parses, then end
\* of input.
WellFormed(content) ==
    /\ Len(content) >= 1
    /\ content[Len(content)].kind = "live_time"
    /\ ParsesAsTime(content[Len(content)].live_time)
    /\ \A i \in 1..(Len(content) - 1) : content[i].kind = "journey"

Deserialize(content) ==
    [journeys |-> [i \in 1..(Len(content) - 1) |-> DeserializeJourney(content[i].journey)],
     live_time |-> ParseTime(content[Len(content)].live_time)]

NoFile == [exists |-> FALSE, data |-> << >>]

\* A cache_path that forgets the agency: every agency shares one file.
cache_path_shared(agency) == ".cache.json"

\* Client::cache_path.
cache_path(agency) == ".cache-" \o agency \o ".json"

CachePaths == { cache_path(a) : a \in Agencies }

\* A write call at offset pos (0-based) of a file another handle may have
\* truncated meanwhile: the gap reads back as NUL bytes.
WriteAt(content, pos, tok) ==
    [i \in 1..(IF pos + 1 > Len(content) THEN pos + 1 ELSE Len(content)) |->
        IF i = pos + 1 THEN tok
        ELSE IF i <= Len(content) THEN content[i]
        ELSE NulTok]

\* -------------------------------------------------------- the transformer

\* ConfigFile.destination_subs: exact raw destination -> replacement.
DestinationSubs ==
    [raw \in {"Downtown", "Center", "Dwntn"} |-> IF raw = "Dwntn" THEN "DT" ELSE "Dwntn"]

\* str::starts_with.
StartsWith(s, prefix) ==
    /\ Len(prefix) <= Len(s)
    /\ SubSeq(s, 1, Len(prefix)) = prefix

\* transform_results, lines 314-320: the first rule, in iteration order, whose
\* prefix the line starts with replaces the whole label.
RECURSIVE SubstituteLine(_, _, _)
SubstituteLine(line, rules, i) ==
    IF i > Len(rules) THEN line
    ELSE IF StartsWith(line, rules[i][1]) THEN rules[i][2]
    ELSE SubstituteLine(line, rules, i + 1)

\* The lookup of lines 307-312 run a second time on its own result.
SubstituteDestinationTwice(destination) ==
    LET once == IF destination \in DOMAIN DestinationSubs THEN DestinationSubs[destination]
                ELSE destination
    IN  IF once \in DOMAIN DestinationSubs THEN DestinationSubs[once] ELSE once

\* transform_results, lines 307-312.
SubstituteDestination(destination) ==
    IF destination \in DOMAIN DestinationSubs THEN DestinationSubs[destination]
    ELSE destination

\* Vec::sort on the group's times (Upcoming orders by time): insertion sort.
RECURSIVE InsertSorted(_, _)
InsertSorted(sorted, t) ==
    IF sorted = << >> THEN << t >>
    ELSE IF t < Head(sorted) THEN << t >> \o sorted
    ELSE << Head(sorted) >> \o InsertSorted(Tail(sorted), t)

RECURSIVE SortTimes(_)
SortTimes(times) ==
    IF times = << >> THEN << >>
    ELSE InsertSorted(SortTimes(SubSeq(times, 1, Len(times) - 1)), times[Len(times)])

\* The most arrival times a line group keeps (transform_results, line 335).
MaxUpcoming == 4

\* transform_results without the sort of line 334: drain(4..) alone.
TruncateUnsorted(times) ==
    IF Len(times) > MaxUpcoming THEN SubSeq(times, 1, MaxUpcoming) ELSE times

\* transform_results with drain(4..) ahead of the sort: the first 4 in
\* snapshot order, sorted.
TruncateThenSort(times) == SortTimes(TruncateUnsorted(times))

\* transform_results, lines 333-338: sort, then drain(4..).
SortAndTruncate(times) ==
    LET sorted == SortTimes(times)
    IN  IF Len(sorted) > MaxUpcoming THEN SubSeq(sorted, 1, MaxUpcoming) ELSE sorted

\* The test of line 303 the wrong way round: future arrivals are dropped.
InPastInverted(time, nowv) == nowv < time

\* transform_results, line 303: `time < Utc::now()`.
InPast(time, nowv) == time < nowv

\* opt_cont! on the four optional fields (lines 296-299).
Complete(j) ==
    /\ j.expected_arrival_time # None
    /\ j.line_ref # None
    /\ j.direction_ref # None
    /\ j.destination_name # None

\* The Line key of a journey that survived (lines 307-328); `iter` is the
\* order in which `&stop_config.line_prefix_subs` yields its entries.
LineOf(stop_config, j, iter) ==
    [line |-> SubstituteLine(j.line_ref[1], iter, 1),
     agency |-> stop_config.agency,
     direction |-> j.direction_ref[1],
     destination |-> SubstituteDestination(j.destination_name[1])]

\* The loop of lines 295-331 over journeys[i..]: the BTreeMap<Line, Vec<time>>
\* built so far is `upcoming`; a present time that does not parse ends it.
RECURSIVE CollectUpcoming(_, _, _, _, _, _)
CollectUpcoming(stop_config, iter, journeys, i, nowv, upcoming) ==
    IF i > Len(journeys) THEN [ok |-> TRUE, upcoming |-> upcoming]
    ELSE LET j == journeys[i]
         IN  IF ~Complete(j)
             THEN CollectUpcoming(stop_config, iter, journeys, i + 1, nowv, upcoming)
             ELSE IF ~ParsesAsTime(j.expected_arrival_time[1])
             THEN [ok |-> FALSE, upcoming |-> upcoming]
             ELSE LET time == ParseTime(j.expected_arrival_time[1])
                      line == LineOf(stop_config, j, iter)
                  IN  IF InPast(time, nowv)
                      THEN CollectUpcoming(stop_config, iter, journeys, i + 1, nowv, upcoming)
                      ELSE CollectUpcoming(stop_config, iter, journeys, i + 1, nowv,
                              IF line \in DOMAIN upcoming
                              THEN [upcoming EXCEPT ![line] = Append(@, time)]
                              ELSE [l \in DOMAIN upcoming \cup {line} |->
                                      IF l = line THEN << time >> ELSE upcoming[l]])

EmptyMap == [l \in {} |-> << >>]

\* transform_results with `ok_or(..)?` in place of opt_cont!: an absent field
\* fails the batch.
transform_results_strict(stop_config, iter, cached, nowv) ==
    LET collected == IF \E i \in 1..Len(cached.journeys) : ~Complete(cached.journeys[i])
                     THEN [ok |-> FALSE, upcoming |-> EmptyMap]
                     ELSE CollectUpcoming(stop_config, iter, cached.journeys, 1, nowv, EmptyMap)
    IN  IF ~collected.ok
        THEN [ok |-> FALSE, agency |-> stop_config.agency, upcoming |-> EmptyMap, live_time |-> 0]
        ELSE [ok |-> TRUE,
              agency |-> stop_config.agency,
              upcoming |-> [l \in DOMAIN collected.upcoming |-> SortAndTruncate(collected.upcoming[l])],
              live_time |-> cached.live_time]

\* transform_results with `let Ok(time) = .. else { continue }` in place of
\* the `?` of line 301: a record whose time does not parse is skipped.
transform_results_lenient(stop_config, iter, cached, nowv) ==
    LET parsing == SelectSeq(cached.journeys,
                      LAMBDA j : Complete(j) => ParsesAsTime(j.expected_arrival_time[1]))
        collected == CollectUpcoming(stop_config, iter, parsing, 1, nowv, EmptyMap)
    IN  [ok |-> TRUE,
         agency |-> stop_config.agency,
         upcoming |-> [l \in DOMAIN collected.upcoming |-> SortAndTruncate(collected.upcoming[l])],
         live_time |-> cached.live_time]

\* transform_results that names its response after the cache file it was read
\* from instead of the configured agency.
transform_results_by_path(stop_config, iter, cached, nowv) ==
    LET collected == CollectUpcoming(stop_config, iter, cached.journeys, 1, nowv, EmptyMap)
    IN  IF ~collected.ok
        THEN [ok |-> FALSE, agency |-> stop_config.agency, upcoming |-> EmptyMap, live_time |-> 0]
        ELSE [ok |-> TRUE,
              agency |-> cache_path(stop_config.agency),
              upcoming |-> [l \in DOMAIN collected.upcoming |-> SortAndTruncate(collected.upcoming[l])],
              live_time |-> cached.live_time]

\* Client::transform_results.
transform_results(stop_config, iter, cached, nowv) ==
    LET collected == CollectUpcoming(stop_config, iter, cached.journeys, 1, nowv, EmptyMap)
    IN  IF ~collected.ok
        THEN [ok |-> FALSE, agency |-> stop_config.agency, upcoming |-> EmptyMap, live_time |-> 0]
        ELSE [ok |-> TRUE,
              agency |-> stop_config.agency,
              upcoming |-> [l \in DOMAIN collected.upcoming |-> SortAndTruncate(collected.upcoming[l])],
              live_time |-> cached.live_time]

\* ------------------------------------------------------ the refresh loop

\* request_and_cache without the filter_map of lines 261-272: every journey
\* of the feed is kept.
FilterStopsKeepsAll(feed, stops) == feed

\* request_and_cache, lines 256-273: keep the journeys of the requested stops.
FilterStops(feed, stops) ==
    SelectSeq(feed, LAMBDA j : j.stop_point_ref \in stops)

IdleTask == [pc |-> "idle", journeys |-> << >>]

\* A snapshot a previous run of the process left behind.
PriorSnapshot ==
    [exists |-> TRUE,
     data |-> Serialize([journeys |-> << Journey(Some("7"), Some("IB"), Some("Downtown"), Some("1"), "S1") >>,
                         live_time |-> 0])]

RefreshInit ==
    /\ now = 1
    /\ looppc = "start"
    /\ tickres = "none"
    /\ upstream = [a \in Agencies |-> "ok"]
    /\ task = [a \in Agencies |-> IdleTask]
    /\ joined = {}
    /\ writers = [a \in Agencies |-> << >>]
    /\ file \in [CachePaths -> {NoFile, PriorSnapshot}]
    /\ log = {}

\* DataAccess::new, the loop body: (after the sleep) call
\* Client::load_stop_data, which spawns one request_and_cache per agency into
\* a JoinSet and then waits in join_next.  `feed` is how the remote feed will
\* answer each agency's request of this tick.
StartTick(feed) ==
    /\ looppc \in {"start", "sleep"}
    /\ now' = IF looppc = "sleep" THEN Min(now + 1, MaxTime) ELSE now
    /\ looppc' = "join"
    /\ tickres' = "none"
    /\ upstream' = feed
    /\ task' = [a \in Agencies |-> [pc |-> "request", journeys |-> << >>]]
    /\ joined' = {}
    /\ log' = {}
    /\ UNCHANGED << writers, file >>
    /\ UNCHANGED << loadVars, transformVars, configVars >>

\* request_and_cache, lines 245-254: the request fails (transport error,
\* non-2xx status, malformed envelope) and `?` returns the error.
FetchFail(a) ==
    /\ task[a].pc = "request"
    /\ upstream[a] = "err"
    /\ task' = [task EXCEPT ![a].pc = "failed"]
    /\ UNCHANGED << now, looppc, tickres, upstream, joined, writers, file, log >>
    /\ UNCHANGED << loadVars, transformVars, configVars >>

\* request_and_cache, lines 245-280: the response arrives, is parsed and
\* filtered, and store_cache is handed to the blocking pool, where fewer than
\* `cap` jobs of the agency are running.
FetchOkUpTo(a, feed, cap) ==
    /\ task[a].pc = "request"
    /\ upstream[a] = "ok"
    /\ Len(writers[a]) < cap
    /\ LET journeys == FilterStops(feed, StopConfigOf(a).stops)
       IN  /\ task' = [task EXCEPT ![a] = [pc |-> "store", journeys |-> journeys]]
           /\ writers' = [writers EXCEPT ![a] =
                Append(@, [path |-> cache_path(a), journeys |-> journeys, live_time |-> 0,
                            pos |-> -1, attached |-> TRUE])]
    /\ UNCHANGED << now, looppc, tickres, upstream, joined, file, log >>
    /\ UNCHANGED << loadVars, transformVars, configVars >>

FetchOk(a, feed) == FetchOkUpTo(a, feed, MaxWriters)

RemoveAt(s, i) == [k \in 1..(Len(s) - 1) |-> IF k < i THEN s[k] ELSE s[k + 1]]

\* request_and_cache with `?` on the store_cache result: a failed cache
\* write fails the task.
StoreReturnedFatal(a, w, ok) ==
    /\ writers' = [writers EXCEPT ![a] = RemoveAt(@, w)]
    /\ IF writers[a][w].attached
       THEN /\ task' = [task EXCEPT ![a].pc = IF ok THEN "done" ELSE "failed"]
            /\ log' = IF ok THEN log ELSE log \cup {[msg |-> "failed to cache data", agency |-> a]}
       ELSE UNCHANGED << task, log >>

\* What the task does when its store_cache job returns (lines 279-285): an
\* error is only logged, and the task returns Ok(journeys) either way.
StoreReturned(a, w, ok) ==
    /\ writers' = [writers EXCEPT ![a] = RemoveAt(@, w)]
    /\ IF writers[a][w].attached
       THEN /\ task' = [task EXCEPT ![a].pc = "done"]
            /\ log' = IF ok THEN log ELSE log \cup {[msg |-> "failed to cache data", agency |-> a]}
       ELSE UNCHANGED << task, log >>

\* store_cache that removes the old file (std::fs::remove_file) and writes
\* the new one under a temporary name it never renames.
StoreCreateRemoves(a, w) ==
    /\ w \in 1..Len(writers[a])
    /\ writers[a][w].pos = -1
    /\ writers' = [writers EXCEPT ![a][w].pos = 0, ![a][w].live_time = now]
    /\ file' = [file EXCEPT ![writers[a][w].path] = NoFile]
    /\ UNCHANGED << now, looppc, tickres, upstream, task, joined, log >>
    /\ UNCHANGED << loadVars, transformVars, configVars >>

\* store_cache, lines 204-211: build Cached with live_time = Utc::now() and
\* File::create the path, which truncates the file in place.
StoreCreate(a, w) ==
    /\ w \in 1..Len(writers[a])
    /\ writers[a][w].pos = -1
    /\ writers' = [writers EXCEPT ![a][w].pos = 0, ![a][w].live_time = now]
    /\ file' = [file EXCEPT ![writers[a][w].path] = [exists |-> TRUE, data |-> << >>]]
    /\ UNCHANGED << now, looppc, tickres, upstream, task, joined, log >>
    /\ UNCHANGED << loadVars, transformVars, configVars >>

\* store_cache, line 213: the next write call of serde_json::to_writer; the
\* last one completes the file and the job returns Ok(()).
StoreWrite(a, w) ==
    /\ w \in 1..Len(writers[a])
    /\ writers[a][w].pos >= 0
    /\ LET job == writers[a][w]
           toks == Serialize([journeys |-> job.journeys, live_time |-> job.live_time])
       IN  /\ file' = [file EXCEPT ![job.path].data = WriteAt(@, job.pos, toks[job.pos + 1])]
           /\ IF job.pos + 1 = Len(toks)
              THEN StoreReturned(a, w, TRUE)
              ELSE /\ writers' = [writers EXCEPT ![a][w].pos = @ + 1]
                   /\ UNCHANGED << task, log >>
    /\ UNCHANGED << now, looppc, tickres, upstream, joined >>
    /\ UNCHANGED << loadVars, transformVars, configVars >>

\* store_cache, lines 211 and 213: File::create or a write call fails (no
\* space, no permission); `?` returns the error and the file stays as it is.
StoreFail(a, w) ==
    /\ w \in 1..Len(writers[a])
    /\ StoreReturned(a, w, FALSE)
    /\ UNCHANGED << now, looppc, tickres, upstream, joined, file >>
    /\ UNCHANGED << loadVars, transformVars, configVars >>

\* Dropping the JoinSet aborts every task still in it; a store_cache job
\* already handed to the blocking pool runs on, detached.
AbortRest(failed) ==
    /\ task' = [a \in Agencies |->
                  IF task[a].pc \in {"request", "store"}
                  THEN [task[a] EXCEPT !.pc = "aborted"]
                  ELSE task[a]]
    /\ writers' = [a \in Agencies |->
                  [w \in 1..Len(writers[a]) |-> [writers[a][w] EXCEPT !.attached = FALSE]]]

\* Client::load_stop_data, lines 185-189: join_next hands out a task that
\* returned Ok; after the last one the call returns Ok(()) and the loop sleeps.
JoinOk(a) ==
    /\ looppc = "join"
    /\ a \notin joined
    /\ task[a].pc = "done"
    /\ joined' = joined \cup {a}
    /\ IF joined' = Agencies
       THEN looppc' = "sleep" /\ tickres' = "ok"
       ELSE UNCHANGED << looppc, tickres >>
    /\ UNCHANGED << now, upstream, task, writers, file, log >>
    /\ UNCHANGED << loadVars, transformVars, configVars >>

\* The loop with `?` in place of `if let Err(e)`: the first failed tick ends it.
JoinErrEndsLoop(a) ==
    /\ looppc = "join"
    /\ a \notin joined
    /\ task[a].pc = "failed"
    /\ joined' = joined \cup {a}
    /\ AbortRest(a)
    /\ looppc' = "exited"
    /\ tickres' = "err"
    /\ UNCHANGED << now, upstream, file, log >>
    /\ UNCHANGED << loadVars, transformVars, configVars >>

\* The loop with `continue` after the warning: a failed tick is followed by the
\* next one without the sleep.
JoinErrRetriesAtOnce(a) ==
    /\ looppc = "join"
    /\ a \notin joined
    /\ task[a].pc = "failed"
    /\ joined' = joined \cup {a}
    /\ AbortRest(a)
    /\ looppc' = "start"
    /\ tickres' = "err"
    /\ log' = log \cup {[msg |-> "failed to load stop data", agency |-> a]}
    /\ UNCHANGED << now, upstream, file >>
    /\ UNCHANGED << loadVars, transformVars, configVars >>

\* Client::load_stop_data, line 186, and DataAccess::new, lines 116-119:
\* join_next hands out a task that returned Err; `result??` returns it at
\* once, which drops the JoinSet; the loop logs the error and sleeps.
JoinErr(a) ==
    /\ looppc = "join"
    /\ a \notin joined
    /\ task[a].pc = "failed"
    /\ joined' = joined \cup {a}
    /\ AbortRest(a)
    /\ looppc' = "sleep"
    /\ tickres' = "err"
    /\ log' = log \cup {[msg |-> "failed to load stop data", agency |-> a]}
    /\ UNCHANGED << now, upstream, file >>
    /\ UNCHANGED << loadVars, transformVars, configVars >>

\* --------------------------------------------------------- the read path

Ascii == "0123456789ABCDEFGHIJKLMNOPQRSTUVWXYZabcdefghijklmnopqrstuvwxyz"

Rank(c) == CHOOSE i \in 1..Len(Ascii) : SubSeq(Ascii, i, i) = c

\* Ord for String: byte-wise lexicographic.
RECURSIVE StrLess(_, _)
StrLess(s, t) ==
    IF Len(t) = 0 THEN FALSE
    ELSE IF Len(s) = 0 THEN TRUE
    ELSE LET a == Rank(SubSeq(s, 1, 1))
             b == Rank(SubSeq(t, 1, 1))
         IN  \/ a < b
             \/ a = b /\ StrLess(SubSeq(s, 2, Len(s)), SubSeq(t, 2, Len(t)))

\* #[derive(PartialOrd, Ord)] on Line: line, agency, direction, destination.
LineLess(x, y) ==
    \/ StrLess(x.line, y.line)
    \/ x.line = y.line /\ StrLess(x.agency, y.agency)
    \/ x.line = y.line /\ x.agency = y.agency /\ StrLess(x.direction, y.direction)
    \/ x.line = y.line /\ x.agency = y.agency /\ x.direction = y.direction
         /\ StrLess(x.destination, y.destination)

\* The map iterated with `.into_iter().rev()`: greatest key first.
RECURSIVE SortedLinesReversed(_)
SortedLinesReversed(S) ==
    IF S = {} THEN << >>
    ELSE LET greatest == CHOOSE x \in S : \A y \in S \ {x} : LineLess(y, x)
         IN  << greatest >> \o SortedLinesReversed(S \ {greatest})

\* Iteration order of a BTreeMap<Line, _> with keys S.
RECURSIVE SortedLines(_)
SortedLines(S) ==
    IF S = {} THEN << >>
    ELSE LET least == CHOOSE x \in S : \A y \in S \ {x} : LineLess(x, y)
         IN  << least >> \o SortedLines(S \ {least})

Put(f, k, v) == [x \in DOMAIN f \cup {k} |-> IF x = k THEN v ELSE f[x]]

EmptyStopData == [a \in {} |-> 0]

\* The merge with the agency level left out: the lines of every response
\* land in one entry, in the order the responses are joined.
RECURSIVE MergeLinesUnkeyed(_, _, _, _)
MergeLinesUnkeyed(d, response, lines, i) ==
    IF i > Len(lines) THEN d
    ELSE LET line == lines[i]
             old == IF "all" \in DOMAIN d THEN d["all"].directions
                    ELSE [x \in {} |-> << >>]
             sofar == IF line.direction \in DOMAIN old THEN old[line.direction] ELSE << >>
             entry == [live_time |-> response.live_time,
                       directions |-> Put(old, line.direction,
                            Append(sofar, [line |-> line, upcoming |-> response.upcoming[line]]))]
         IN  MergeLinesUnkeyed(Put(d, "all", entry), response, lines, i + 1)

\* The merge with `agency_directions.live_time = Utc::now()`: the entry is
\* stamped when the request is served.
RECURSIVE MergeLinesStampsNow(_, _, _, _)
MergeLinesStampsNow(d, response, lines, i) ==
    IF i > Len(lines) THEN d
    ELSE LET line == lines[i]
             old == IF response.agency \in DOMAIN d THEN d[response.agency].directions
                    ELSE [x \in {} |-> << >>]
             sofar == IF line.direction \in DOMAIN old THEN old[line.direction] ELSE << >>
             entry == [live_time |-> now,
                       directions |-> Put(old, line.direction,
                            Append(sofar, [line |-> line, upcoming |-> response.upcoming[line]]))]
         IN  MergeLinesStampsNow(Put(d, response.agency, entry), response, lines, i + 1)

\* The merge with `.entry(line.destination.clone())`: a group is filed under
\* its destination.
RECURSIVE MergeLinesByDestination(_, _, _, _)
MergeLinesByDestination(d, response, lines, i) ==
    IF i > Len(lines) THEN d
    ELSE LET line == lines[i]
             old == IF response.agency \in DOMAIN d THEN d[response.agency].directions
                    ELSE [x \in {} |-> << >>]
             sofar == IF line.destination \in DOMAIN old THEN old[line.destination] ELSE << >>
             entry == [live_time |-> response.live_time,
                       directions |-> Put(old, line.destination,
                            Append(sofar, [line |-> line, upcoming |-> response.upcoming[line]]))]
         IN  MergeLinesByDestination(Put(d, response.agency, entry), response, lines, i + 1)

\* DataAccess::load_stop_data, lines 146-157, from the i-th line on.
RECURSIVE MergeLines(_, _, _, _)
MergeLines(d, response, lines, i) ==
    IF i > Len(lines) THEN d
    ELSE LET line == lines[i]
             old == IF response.agency \in DOMAIN d THEN d[response.agency].directions
                    ELSE [x \in {} |-> << >>]
             sofar == IF line.direction \in DOMAIN old THEN old[line.direction] ELSE << >>
             entry == [live_time |-> response.live_time,
                       directions |-> Put(old, line.direction,
                            Append(sofar, [line |-> line, upcoming |-> response.upcoming[line]]))]
         IN  MergeLines(Put(d, response.agency, entry), response, lines, i + 1)

\* The merge with the agency's entry made ahead of the loop over its lines.
MergeResponseEntryFirst(d, response) ==
    MergeLines(Put(d, response.agency,
                   [live_time |-> response.live_time, directions |-> [x \in {} |-> << >>]]),
               response, SortedLines(DOMAIN response.upcoming), 1)

MergeResponse(d, response) ==
    MergeLines(d, response, SortedLines(DOMAIN response.upcoming), 1)

NoResponse == [ok |-> FALSE, agency |-> "", upcoming |-> EmptyMap, live_time |-> 0]

IdleReader ==
    [pc |-> "idle", path |-> "", pos |-> 0, buf |-> << >>, error |-> "", response |-> NoResponse]

NoResult == [ok |-> FALSE, failed |-> "", error |-> "", data |-> EmptyStopData]

\* A Layout with no rows (layout.rs, lines 13-19).
NoLayout == [left |-> << >>, right |-> << >>, all_agencies |-> [a \in {} |-> 0]]

\* The request has not been answered.
NoAnswer == [endpoint |-> "", status |-> 0, content_type |-> "", body |-> "", layout |-> NoLayout]

LoadInit ==
    /\ loadpc = "idle"
    /\ rd = [a \in Agencies |-> IdleReader]
    /\ ljoined = {}
    /\ stopdata = EmptyStopData
    /\ loadres = NoResult
    /\ prevres = NoResult
    /\ resp = NoAnswer

\* DataAccess::load_stop_data, lines 126-141: a request arrives (handle_stops_png,
\* handle_stops_html) and one load_upcoming_from_cache per agency is spawned.
LoadStart ==
    /\ loadpc = "idle"
    /\ loadpc' = "join"
    /\ rd' = [a \in Agencies |-> [IdleReader EXCEPT !.pc = "open", !.path = cache_path(a)]]
    /\ ljoined' = {}
    /\ stopdata' = EmptyStopData
    /\ loadres' = NoResult
    /\ prevres' = NoResult
    /\ resp' = NoAnswer
    /\ UNCHANGED << refreshVars, file, transformVars, configVars >>

\* The caller of a load that has returned calls DataAccess::load_stop_data
\* again, keeping what the first call returned.
LoadAgain ==
    /\ loadpc = "idle"
    /\ loadres # NoResult
    /\ loadpc' = "join"
    /\ rd' = [a \in Agencies |-> [IdleReader EXCEPT !.pc = "open", !.path = cache_path(a)]]
    /\ ljoined' = {}
    /\ stopdata' = EmptyStopData
    /\ loadres' = NoResult
    /\ prevres' = loadres
    /\ resp' = NoAnswer
    /\ UNCHANGED << refreshVars, file, transformVars, configVars >>

\* How a read task ends with an error: File::open fails ("not_found"),
\* serde_json::from_reader fails ("corrupt"), transform_results fails
\* ("time_parse").
ReadFailed(a, kind) == rd' = [rd EXCEPT ![a].pc = "err", ![a].error = kind]

\* load_cached that opens the file with create(true): a missing cache file
\* is created empty by the read.
ReadOpenCreates(a) ==
    /\ rd[a].pc = "open"
    /\ rd' = [rd EXCEPT ![a].pc = "read"]
    /\ file' = [file EXCEPT ![rd[a].path].exists = TRUE]
    /\ UNCHANGED << loadpc, ljoined, stopdata, loadres, prevres, resp >>
    /\ UNCHANGED << refreshVars, transformVars, configVars >>

\* load_cached, line 194: File::open.
ReadOpen(a) ==
    /\ rd[a].pc = "open"
    /\ IF file[rd[a].path].exists
       THEN rd' = [rd EXCEPT ![a].pc = "read"]
       ELSE ReadFailed(a, "not_found")
    /\ UNCHANGED << loadpc, ljoined, stopdata, loadres, prevres, resp >>
    /\ UNCHANGED << refreshVars, file, transformVars, configVars >>

\* load_cached that turns down a snapshot older than five minutes (more than
\* one sleep of the refresh loop), as the earlier design in main.rs did.
ReadStepRejectsStale(a) ==
    /\ rd[a].pc = "read"
    /\ LET content == file[rd[a].path].data
           r == rd[a]
       IN  IF r.pos < Len(content)
           THEN LET tok == content[r.pos + 1]
                IN  IF tok.kind = "nul" \/ (r.buf # << >> /\ r.buf[Len(r.buf)].kind = "live_time")
                    THEN ReadFailed(a, "corrupt")
                    ELSE rd' = [rd EXCEPT ![a].pos = @ + 1, ![a].buf = Append(@, tok)]
           ELSE IF WellFormed(r.buf)
                THEN IF now - Deserialize(r.buf).live_time > 1
                     THEN ReadFailed(a, "stale")
                     ELSE LET response == transform_results(StopConfigOf(a), subs_iter[a], Deserialize(r.buf), now)
                          IN  IF response.ok
                              THEN rd' = [rd EXCEPT ![a].pc = "ok", ![a].response = response]
                              ELSE ReadFailed(a, "time_parse")
                ELSE ReadFailed(a, "corrupt")
    /\ UNCHANGED << loadpc, ljoined, stopdata, loadres, prevres, resp >>
    /\ UNCHANGED << refreshVars, file, transformVars, configVars >>

\* load_cached, line 195, and load_upcoming_from_cache, line 230:
\* serde_json::from_reader takes the next piece at its offset from the file as
\* it is now; at end of input it has a Cached value or an error, and a Cached
\* value goes through transform_results.
ReadStep(a) ==
    /\ rd[a].pc = "read"
    /\ LET content == file[rd[a].path].data
           r == rd[a]
       IN  IF r.pos < Len(content)
           THEN LET tok == content[r.pos + 1]
                IN  IF tok.kind = "nul" \/ (r.buf # << >> /\ r.buf[Len(r.buf)].kind = "live_time")
                    THEN ReadFailed(a, "corrupt")
                    ELSE rd' = [rd EXCEPT ![a].pos = @ + 1, ![a].buf = Append(@, tok)]
           ELSE IF WellFormed(r.buf)
                THEN LET response == transform_results(StopConfigOf(a), subs_iter[a], Deserialize(r.buf), now)
                     IN  IF response.ok
                         THEN rd' = [rd EXCEPT ![a].pc = "ok", ![a].response = response]
                         ELSE ReadFailed(a, "time_parse")
                ELSE ReadFailed(a, "corrupt")
    /\ UNCHANGED << loadpc, ljoined, stopdata, loadres, prevres, resp >>
    /\ UNCHANGED << refreshVars, file, transformVars, configVars >>

\* DataAccess::load_stop_data, lines 143-160: join_next hands out a read task
\* that returned Ok, its lines are merged; after the last one Ok(data).
LoadJoinOk(a) ==
    /\ loadpc = "join"
    /\ a \notin ljoined
    /\ rd[a].pc = "ok"
    /\ LET merged == MergeResponse(stopdata, rd[a].response)
       IN  IF ljoined \cup {a} = Agencies
           THEN /\ loadres' = [ok |-> TRUE, failed |-> "", error |-> "", data |-> merged]
                /\ loadpc' = "idle"
                /\ rd' = [b \in Agencies |-> IdleReader]
                /\ ljoined' = {}
                /\ stopdata' = EmptyStopData
           ELSE /\ stopdata' = merged
                /\ ljoined' = ljoined \cup {a}
                /\ UNCHANGED << loadpc, rd, loadres >>
    /\ UNCHANGED << prevres, resp >>
    /\ UNCHANGED << refreshVars, file, transformVars, configVars >>

\* load_stop_data that logs a failed read task and leaves its agency out
\* instead of returning the error.
LoadJoinErrSkips(a) ==
    /\ loadpc = "join"
    /\ a \notin ljoined
    /\ rd[a].pc = "err"
    /\ IF ljoined \cup {a} = Agencies
       THEN /\ loadres' = [ok |-> TRUE, failed |-> "", error |-> "", data |-> stopdata]
            /\ loadpc' = "idle"
            /\ rd' = [b \in Agencies |-> IdleReader]
            /\ ljoined' = {}
            /\ stopdata' = EmptyStopData
       ELSE /\ ljoined' = ljoined \cup {a}
            /\ UNCHANGED << loadpc, rd, loadres, stopdata >>
    /\ UNCHANGED << prevres, resp >>
    /\ UNCHANGED << refreshVars, file, transformVars, configVars >>

\* DataAccess::load_stop_data, line 144: join_next hands out a read task that
\* returned Err; `result??` returns it (wrapped with the agency's name) and the
\* JoinSet, the other read tasks and the partial StopData are dropped.
LoadJoinErr(a) ==
    /\ loadpc = "join"
    /\ a \notin ljoined
    /\ rd[a].pc = "err"
    /\ loadres' = [ok |-> FALSE, failed |-> a, error |-> rd[a].error, data |-> EmptyStopData]
    /\ loadpc' = "idle"
    /\ rd' = [b \in Agencies |-> IdleReader]
    /\ ljoined' = {}
    /\ stopdata' = EmptyStopData
    /\ UNCHANGED << prevres, resp >>
    /\ UNCHANGED << refreshVars, file, transformVars, configVars >>

\* ------------------------------------------------------------- the layout

\* SectionConfig (config.rs): an agency section or a text section.
AgencySection(a, d) == [kind |-> "agency", agency |-> a, direction |-> d, text |-> ""]

TextSection(t) == [kind |-> "text", agency |-> "", direction |-> "", text |-> t]

\* Row::Agency and Row::Text (layout.rs, lines 25-28).
AgencyRow(lines) == [kind |-> "agency", text |-> "", lines |-> lines]

TextRow(t) == [kind |-> "text", text |-> t, lines |-> << >>]

\* Upcoming::minutes (api_client.rs, lines 349-351).
Minutes(time, nowv) == time - nowv

\* layout::agency whose missing direction yields an agency with no lines
\* instead of an error.
agency_or_empty(stop_data, agency_name, direction, all_agencies, nowv) ==
    IF agency_name \notin DOMAIN stop_data
    THEN [ok |-> FALSE, lines |-> << >>, all_agencies |-> all_agencies]
    ELSE LET found == stop_data[agency_name]
             seen == Put(all_agencies, agency_name, found.live_time)
         IN  IF direction \notin DOMAIN found.directions
             THEN [ok |-> TRUE, lines |-> << >>, all_agencies |-> seen]
             ELSE LET lines_in == found.directions[direction]
                  IN  [ok |-> TRUE,
                       lines |-> [k \in 1..Len(lines_in) |->
                                    [id |-> lines_in[k].line.line,
                                     destination |-> lines_in[k].line.destination,
                                     departure_minutes |->
                                        [n \in 1..Len(lines_in[k].upcoming) |->
                                            Minutes(lines_in[k].upcoming[n], nowv)]]],
                       all_agencies |-> seen]

\* layout::agency, lines 90-127: the agency's entry, its live_time noted in
\* all_agencies, then the direction's line groups in their order.
agency(stop_data, agency_name, direction, all_agencies, nowv) ==
    IF agency_name \notin DOMAIN stop_data
    THEN [ok |-> FALSE, lines |-> << >>, all_agencies |-> all_agencies]
    ELSE LET found == stop_data[agency_name]
             seen == Put(all_agencies, agency_name, found.live_time)
         IN  IF direction \notin DOMAIN found.directions
             THEN [ok |-> FALSE, lines |-> << >>, all_agencies |-> seen]
             ELSE LET lines_in == found.directions[direction]
                  IN  [ok |-> TRUE,
                       lines |-> [k \in 1..Len(lines_in) |->
                                    [id |-> lines_in[k].line.line,
                                     destination |-> lines_in[k].line.destination,
                                     departure_minutes |->
                                        [n \in 1..Len(lines_in[k].upcoming) |->
                                            Minutes(lines_in[k].upcoming[n], nowv)]]],
                       all_agencies |-> seen]

\* layout::column, lines 59-88, from the i-th section on.
RECURSIVE column(_, _, _, _, _, _)
column(stop_data, sections, i, rows, all_agencies, nowv) ==
    IF i > Len(sections) THEN [rows |-> rows, all_agencies |-> all_agencies]
    ELSE LET section == sections[i]
         IN  IF section.kind = "agency"
             THEN LET x == agency(stop_data, section.agency, section.direction, all_agencies, nowv)
                  IN  column(stop_data, sections, i + 1,
                             IF x.ok THEN Append(rows, AgencyRow(x.lines)) ELSE rows,
                             x.all_agencies, nowv)
             ELSE column(stop_data, sections, i + 1, Append(rows, TextRow(section.text)),
                         all_agencies, nowv)

\* layout::data_to_layout, lines 46-57.
data_to_layout(stop_data, layout, nowv) ==
    LET left == column(stop_data, layout.left, 1, << >>, [a \in {} |-> 0], nowv)
        right == column(stop_data, layout.right, 1, << >>, left.all_agencies, nowv)
    IN  [left |-> left.rows, right |-> right.rows, all_agencies |-> right.all_agencies]

\* ConfigFile.layout of the served configuration.
LayoutConfig ==
    [left |-> << TextSection("Inbound"), AgencySection("A", "IB") >>,
     right |-> << AgencySection("B", "OB") >>]

\* ------------------------------------------------------------- the handlers

\* ErrorPng::into_response (server.rs, lines 62-71) on the image drawn by
\* png::error_png.
ErrorPngResponse ==
    [endpoint |-> "/stops.png", status |-> 500, content_type |-> "image/png",
     body |-> "error_png", layout |-> NoLayout]

\* The handler's task panicked: no response is written and the connection is
\* closed.
Panicked(endpoint) ==
    [endpoint |-> endpoint, status |-> 0, content_type |-> "", body |-> "panic", layout |-> NoLayout]

\* WrapErrPng::wrap_err_png on an Err, lines 46-60: png::error_png draws the
\* error and its result is unwrapped; error_png returns Err when skia cannot
\* set up a bitmap of the configured size, build the canvas or encode the
\* image (png.rs, render_ctx).
wrap_err_png(error_drawn) ==
    IF error_drawn THEN ErrorPngResponse ELSE Panicked("/stops.png")

\* handle_stops_png, lines 103-130, once load_stop_data has returned.
\* `drawn` and `error_drawn` tell whether png::stops_png and png::error_png
\* return Ok.
AnswerPng(drawn, error_drawn) ==
    /\ loadpc = "idle"
    /\ loadres # NoResult
    /\ resp = NoAnswer
    /\ resp' = IF ~loadres.ok THEN wrap_err_png(error_drawn)
               ELSE IF ~drawn THEN wrap_err_png(error_drawn)
               ELSE [endpoint |-> "/stops.png", status |-> 200, content_type |-> "image/png",
                     body |-> "stops_png",
                     layout |-> data_to_layout(loadres.data, LayoutConfig, now)]
    /\ UNCHANGED << loadpc, rd, ljoined, stopdata, loadres, prevres >>
    /\ UNCHANGED << refreshVars, file, transformVars, configVars >>

\* handle_stops_html, lines 132-146, once load_stop_data has returned.
\* `written` tells whether stops_html returns Ok.
AnswerHtml(written) ==
    /\ loadpc = "idle"
    /\ loadres # NoResult
    /\ resp = NoAnswer
    /\ resp' = IF ~loadres.ok \/ ~written
               THEN [endpoint |-> "/stops.html", status |-> 500, content_type |-> "",
                     body |-> "", layout |-> NoLayout]
               ELSE [endpoint |-> "/stops.html", status |-> 200, content_type |-> "text/html",
                     body |-> "stops_html",
                     layout |-> data_to_layout(loadres.data, LayoutConfig, now)]
    /\ UNCHANGED << loadpc, rd, ljoined, stopdata, loadres, prevres >>
    /\ UNCHANGED << refreshVars, file, transformVars, configVars >>

\* ------------------------------------------------------- specifications

NotRun == [done |-> FALSE, response |-> NoResponse]

TransformIdle ==
    /\ tin = [journeys |-> << >>, live_time |-> 0, nowv |-> 0]
    /\ tout = NotRun

\* The process builds its configuration once: each agency's line_prefix_subs
\* iterates in one of its possible orders from then on (a clone keeps it).
ConfigInit ==
    subs_iter \in { f \in [Agencies -> UNION { IterOrders(StopConfigOf(a).line_prefix_subs) : a \in Agencies }] :
                      \A a \in Agencies : f[a] \in IterOrders(StopConfigOf(a).line_prefix_subs) }

Init == RefreshInit /\ LoadInit /\ TransformIdle /\ ConfigInit

\* The refresh loop and the cache, whatever the feed and the disk do.  (The
\* read path changes none of refreshVars and file.)
Next ==
    \/ \E feed \in [Agencies -> {"ok", "err"}] : StartTick(feed)
    \/ \E a \in Agencies : FetchFail(a)
    \/ \E a \in Agencies, feed \in Feeds : FetchOk(a, feed)
    \/ \E a \in Agencies, w \in 1..MaxWriters : StoreCreate(a, w)
    \/ \E a \in Agencies, w \in 1..MaxWriters : StoreWrite(a, w)
    \/ \E a \in Agencies, w \in 1..MaxWriters : StoreFail(a, w)
    \/ \E a \in Agencies : JoinOk(a)
    \/ \E a \in Agencies : JoinErr(a)

Spec == Init /\ [][Next]_vars

\* Requests served while the refresh loop runs, the feed answering every
\* request and the disk taking every write.
ServeNext ==
    \/ StartTick([a \in Agencies |-> "ok"])
    \/ \E a \in Agencies, feed \in Feeds : FetchOk(a, feed)
    \/ \E a \in Agencies, w \in 1..MaxWriters : StoreCreate(a, w)
    \/ \E a \in Agencies, w \in 1..MaxWriters : StoreWrite(a, w)
    \/ \E a \in Agencies : JoinOk(a)
    \/ LoadStart
    \/ \E a \in Agencies : ReadOpen(a)
    \/ \E a \in Agencies : ReadStep(a)
    \/ \E a \in Agencies : LoadJoinOk(a)
    \/ \E a \in Agencies : LoadJoinErr(a)

ServeSpec == Init /\ [][ServeNext]_vars

\* The refresh loop under the scheduling the runtime gives: the sleep ends,
\* every request returns, every store_cache job on the blocking pool gets
\* to run, and join_next hands out a finished task.
AnyTick == \E feed \in [Agencies -> {"ok", "err"}] : StartTick(feed)

Respond(a) == \E feed \in Feeds : FetchOk(a, feed)

RunStore(a) == \E w \in 1..MaxWriters : StoreCreate(a, w) \/ StoreWrite(a, w)

LiveSpec ==
    /\ Spec
    /\ WF_vars(AnyTick)
    /\ \A a \in Agencies : WF_vars(FetchFail(a))
    /\ \A a \in Agencies : WF_vars(Respond(a))
    /\ \A a \in Agencies : WF_vars(RunStore(a))
    /\ \A a \in Agencies : WF_vars(JoinOk(a))
    /\ \A a \in Agencies : WF_vars(JoinErr(a))

\* The same loop on a disk that takes every write: what is left to go wrong
\* is the feed.
DiskOkNext ==
    \/ \E feed \in [Agencies -> {"ok", "err"}] : StartTick(feed)
    \/ \E a \in Agencies : FetchFail(a)
    \/ \E a \in Agencies, feed \in Feeds : FetchOk(a, feed)
    \/ \E a \in Agencies, w \in 1..MaxWriters : StoreCreate(a, w)
    \/ \E a \in Agencies, w \in 1..MaxWriters : StoreWrite(a, w)
    \/ \E a \in Agencies : JoinOk(a)
    \/ \E a \in Agencies : JoinErr(a)

DiskOkLiveSpec ==
    /\ Init
    /\ [][DiskOkNext]_vars
    /\ WF_vars(AnyTick)
    /\ \A a \in Agencies : WF_vars(FetchFail(a))
    /\ \A a \in Agencies : WF_vars(Respond(a))
    /\ \A a \in Agencies : WF_vars(RunStore(a))
    /\ \A a \in Agencies : WF_vars(JoinOk(a))
    /\ \A a \in Agencies : WF_vars(JoinErr(a))

\* ------------------------------------------------- transformer runs

\* Longest snapshot handed to transform_results.
MaxJourneys == 5

OnLine7(eat) == Journey(Some("7"), Some("IB"), Some("Downtown"), Some(eat), "S1")

\* Records of one line at several times (one of them past), a record of
\* another line, one with no destination and one whose time does not parse.
TransformPool ==
    { OnLine7("5"), OnLine7("3"), OnLine7("12"), OnLine7("1"),
      Journey(Some("71A"), Some("OB"), Some("Airport"), Some("4"), "S1"),
      Journey(Some("7"), Some("IB"), None, Some("6"), "S1"),
      OnLine7("soon") }

\* The clock reading of a transformer run.
TransformNow == 2

TransformInit ==
    /\ now = TransformNow
    /\ looppc = "start"
    /\ tickres = "none"
    /\ upstream = [a \in Agencies |-> "ok"]
    /\ task = [a \in Agencies |-> IdleTask]
    /\ joined = {}
    /\ writers = [a \in Agencies |-> << >>]
    /\ file = [p \in CachePaths |-> NoFile]
    /\ log = {}
    /\ LoadInit
    /\ ConfigInit
    /\ tin \in [journeys : SeqsUpTo(TransformPool, MaxJourneys), live_time : {1}, nowv : {TransformNow}]
    /\ tout = NotRun

\* One call of Client::transform_results (load_upcoming_from_cache, line 230).
Transform ==
    /\ ~tout.done
    /\ tout' = [done |-> TRUE,
                response |-> transform_results(StopConfigOf("A"), subs_iter["A"],
                                [journeys |-> tin.journeys, live_time |-> tin.live_time], tin.nowv)]
    /\ UNCHANGED << tin, refreshVars, file, loadVars, configVars >>

TransformNext == Transform

TransformSpec == TransformInit /\ [][TransformNext]_vars

\* ------------------------------------- transformer runs on flawed records

\* Longest batch of flawed records handed to transform_results.
MaxBatch == 3

\* Two sound records, one record for each optional field that can be absent
\* (the one without destination carries a time that does not parse), and a
\* complete record whose time does not parse.
RecordPool ==
    { OnLine7("5"),
      Journey(Some("71A"), Some("OB"), Some("Airport"), Some("4"), "S1"),
      Journey(Some("7"), Some("IB"), Some("Downtown"), None, "S1"),
      Journey(None, Some("IB"), Some("Downtown"), Some("6"), "S1"),
      Journey(Some("7"), None, Some("Downtown"), Some("6"), "S1"),
      Journey(Some("7"), Some("IB"), None, Some("soon"), "S1"),
      OnLine7("soon") }

RecordInit ==
    /\ now = TransformNow
    /\ looppc = "start"
    /\ tickres = "none"
    /\ upstream = [a \in Agencies |-> "ok"]
    /\ task = [a \in Agencies |-> IdleTask]
    /\ joined = {}
    /\ writers = [a \in Agencies |-> << >>]
    /\ file = [p \in CachePaths |-> NoFile]
    /\ log = {}
    /\ LoadInit
    /\ ConfigInit
    /\ tin \in [journeys : SeqsUpTo(RecordPool, MaxBatch), live_time : {1}, nowv : {TransformNow}]
    /\ tout = NotRun

RecordNext == Transform

RecordSpec == RecordInit /\ [][RecordNext]_vars

\* ---------------------------- transformer runs on records by destination

\* Longest batch of records that differ in their destination.
MaxDestinations == 3

\* Future arrivals of one line and direction: two raw destinations with the
\* same replacement, one that is itself a replacement and a key, and one that
\* only starts with a key.
DestinationPool ==
    { Journey(Some("7"), Some("IB"), Some("Downtown"), Some("3"), "S1"),
      Journey(Some("7"), Some("IB"), Some("Center"), Some("4"), "S1"),
      Journey(Some("7"), Some("IB"), Some("Dwntn"), Some("5"), "S1"),
      Journey(Some("7"), Some("IB"), Some("Downtown East"), Some("6"), "S1") }

DestinationInit ==
    /\ now = TransformNow
    /\ looppc = "start"
    /\ tickres = "none"
    /\ upstream = [a \in Agencies |-> "ok"]
    /\ task = [a \in Agencies |-> IdleTask]
    /\ joined = {}
    /\ writers = [a \in Agencies |-> << >>]
    /\ file = [p \in CachePaths |-> NoFile]
    /\ log = {}
    /\ LoadInit
    /\ ConfigInit
    /\ tin \in [journeys : SeqsUpTo(DestinationPool, MaxDestinations), live_time : {1},
                 nowv : {TransformNow}]
    /\ tout = NotRun

DestinationNext == Transform

DestinationSpec == DestinationInit /\ [][DestinationNext]_vars

\* ------------------------------------------- a snapshot written, then read

\* Longest snapshot written and read back.
MaxRecords == 3

\* Records with every field present, with fields absent, and with a field
\* present but empty.
RoundTripPool ==
    { OnLine7("2"),
      Journey(None, Some("IB"), Some("Downtown"), Some("3"), "S1"),
      Journey(Some("7"), Some(""), None, None, "S1"),
      Journey(None, None, None, None, "S1") }

\* request_and_cache of agency A has just handed store_cache to the blocking
\* pool (line 280), early or late in the life of the process.
RoundTripInit ==
    /\ now \in {1, 10 * MaxTime + 1}
    /\ looppc = "join"
    /\ tickres = "none"
    /\ upstream = [a \in Agencies |-> "ok"]
    /\ \E journeys \in SeqsUpTo(RoundTripPool, MaxRecords) :
          /\ task = [a \in Agencies |->
                       IF a = "A" THEN [pc |-> "store", journeys |-> journeys]
                       ELSE [pc |-> "request", journeys |-> << >>]]
          /\ writers = [a \in Agencies |->
                          IF a = "A"
                          THEN << [path |-> cache_path(a), journeys |-> journeys, live_time |-> 0,
                                   pos |-> -1, attached |-> TRUE] >>
                          ELSE << >>]
    /\ joined = {}
    /\ file \in [CachePaths -> {NoFile, PriorSnapshot}]
    /\ log = {}
    /\ LoadInit
    /\ TransformIdle
    /\ ConfigInit

\* A request arrives when no store_cache job is left on the blocking pool.
LoadAfterStore ==
    /\ \A a \in Agencies : writers[a] = << >>
    /\ LoadStart

\* The job runs to its end; requests are served once it has returned.
RoundTripNext ==
    \/ \E a \in Agencies, w \in 1..MaxWriters : StoreCreate(a, w)
    \/ \E a \in Agencies, w \in 1..MaxWriters : StoreWrite(a, w)
    \/ LoadAfterStore
    \/ \E a \in Agencies : ReadOpen(a)
    \/ \E a \in Agencies : ReadStep(a)

RoundTripSpec == RoundTripInit /\ [][RoundTripNext]_vars

\* -------------------------------------- requests served from a cache at rest

\* What a cache file may hold when a request is served: nothing, an old
\* snapshot, a newer one with three lines in two directions, one whose only
\* record carries a time that does not parse, one cut short by a crashed
\* write, one whose only arrival is past by the second clock reading, and one
\* with five arrivals of raw lines 7 and 72 in one direction.
StoredFiles ==
    { NoFile,
      [exists |-> TRUE, data |-> Serialize([journeys |-> << OnLine7("2") >>, live_time |-> 0])],
      [exists |-> TRUE,
       data |-> Serialize([journeys |-> << OnLine7("3"),
                                           Journey(Some("71A"), Some("OB"), Some("Airport"), Some("4"), "S1"),
                                           Journey(Some("8"), Some("OB"), Some("Airport"), Some("5"), "S1") >>,
                           live_time |-> 1])],
      [exists |-> TRUE, data |-> Serialize([journeys |-> << OnLine7("soon") >>, live_time |-> 0])],
      [exists |-> TRUE, data |-> << JTok(OnLine7("2")) >>],
      [exists |-> TRUE, data |-> Serialize([journeys |-> << OnLine7("1") >>, live_time |-> 0])],
      [exists |-> TRUE,
       data |-> Serialize([journeys |-> << Journey(Some("72"), Some("IB"), Some("Downtown"), Some("3"), "S1"),
                                           OnLine7("6"),
                                           OnLine7("2"),
                                           Journey(Some("72"), Some("IB"), Some("Downtown"), Some("5"), "S1"),
                                           OnLine7("4") >>,
                           live_time |-> 1])] }

ReadInit ==
    /\ now \in 1..MaxTime
    /\ looppc = "start"
    /\ tickres = "none"
    /\ upstream = [a \in Agencies |-> "ok"]
    /\ task = [a \in Agencies |-> IdleTask]
    /\ joined = {}
    /\ writers = [a \in Agencies |-> << >>]
    /\ file \in [CachePaths -> StoredFiles]
    /\ log = {}
    /\ LoadInit
    /\ TransformIdle
    /\ ConfigInit

\* Requests served one after another while nothing writes the cache and the
\* clock stands.
ReadNext ==
    \/ LoadStart
    \/ LoadAgain
    \/ \E a \in Agencies : ReadOpen(a)
    \/ \E a \in Agencies : ReadStep(a)
    \/ \E a \in Agencies : LoadJoinOk(a)
    \/ \E a \in Agencies : LoadJoinErr(a)

ReadSpec == ReadInit /\ [][ReadNext]_vars

\* ------------------------------------------- one tick over a longer feed

\* The longest feed answer of this specification.
MaxVisits == 3

\* Visits of two lines at the configured stop and one at another stop.
FetchVisits ==
    { Journey(Some("7"), Some("IB"), Some("Downtown"), Some("2"), "S1"),
      Journey(Some("8"), Some("OB"), Some("Airport"), Some("3"), "S1"),
      Journey(Some("7"), Some("IB"), Some("Downtown"), Some("1"), "S9") }

FetchFeeds == SeqsUpTo(FetchVisits, MaxVisits)

\* The first pass of the loop of DataAccess::new, the feed answering every
\* agency.
FirstTick ==
    /\ looppc = "start"
    /\ StartTick([a \in Agencies |-> "ok"])

FetchNext ==
    \/ FirstTick
    \/ \E a \in Agencies, feed \in FetchFeeds : FetchOk(a, feed)
    \/ \E a \in Agencies, w \in 1..MaxWriters : StoreCreate(a, w)
    \/ \E a \in Agencies, w \in 1..MaxWriters : StoreWrite(a, w)
    \/ \E a \in Agencies : JoinOk(a)

FetchSpec == Init /\ [][FetchNext]_vars

\* ------------------------- a cache write that outlasts the loop's sleep

\* The most store_cache jobs of one agency that run at a time when a job left
\* over from an earlier tick may still be running.
MaxOverlap == 2

\* A pass of the loop in which the feed answers agency A.
TickAnsweringA ==
    \E other \in {"ok", "err"} :
        StartTick([a \in Agencies |-> IF a = "A" THEN "ok" ELSE other])

\* The refresh loop with a disk that takes every write, the feed answering
\* agency A in every tick.
OverlapNext ==
    \/ TickAnsweringA
    \/ \E a \in Agencies : FetchFail(a)
    \/ \E a \in Agencies, feed \in Feeds : FetchOkUpTo(a, feed, MaxOverlap)
    \/ \E a \in Agencies, w \in 1..MaxOverlap : StoreCreate(a, w)
    \/ \E a \in Agencies, w \in 1..MaxOverlap : StoreWrite(a, w)
    \/ \E a \in Agencies : JoinOk(a)
    \/ \E a \in Agencies : JoinErr(a)

OverlapSpec == Init /\ [][OverlapNext]_vars

\* ---------------------- the earlier design: fetching on the request path

\* main.rs, line 437: `age > Duration::minutes(5)`.  In this specification the
\* clock counts minutes.
StaleAfter == 5

\* The last minute of the clock.
MaxMinutes == 6

\* A snapshot cut short by a crashed write.
PartialSnapshot ==
    [exists |-> TRUE,
     data |-> << JTok(Journey(Some("7"), Some("IB"), Some("Downtown"), Some("1"), "S1")) >>]

\* The process starts five minutes after a previous run wrote its snapshots.
EarlierInit ==
    /\ now = StaleAfter
    /\ looppc = "start"
    /\ tickres = "none"
    /\ upstream = [a \in Agencies |-> "ok"]
    /\ task = [a \in Agencies |-> IdleTask]
    /\ joined = {}
    /\ writers = [a \in Agencies |-> << >>]
    /\ file \in [CachePaths -> {NoFile, PriorSnapshot, PartialSnapshot}]
    /\ log = {}
    /\ LoadInit
    /\ TransformIdle
    /\ ConfigInit

\* main.rs, load_stop_data, lines 388-402: a request arrives, now or a minute
\* later, and one load_upcoming per agency is spawned; `feed` is how the remote
\* feed will answer each agency if it is asked.
EarlyLoadStart(feed) ==
    /\ loadpc = "idle"
    /\ now' \in {now, Min(now + 1, MaxMinutes)}
    /\ loadpc' = "join"
    /\ upstream' = feed
    /\ task' = [a \in Agencies |-> [pc |-> "cache", journeys |-> << >>]]
    /\ joined' = {}
    /\ log' = {}
    /\ UNCHANGED << looppc, tickres, writers, file >>
    /\ UNCHANGED << rd, ljoined, stopdata, loadres, prevres, resp, transformVars, configVars >>

\* main.rs, request_with_caching, lines 469-473, and load_cached, lines
\* 430-445: the file is opened and deserialized and its age is taken; Ok
\* returns the cached journeys, any Err goes on to the remote request.
EarlyLoadCached(a) ==
    /\ task[a].pc = "cache"
    /\ LET f == file[cache_path(a)]
       IN  IF /\ f.exists
              /\ WellFormed(f.data)
              /\ ~(now - Deserialize(f.data).live_time > StaleAfter)
           THEN task' = [task EXCEPT ![a] = [pc |-> "done", journeys |-> Deserialize(f.data).journeys]]
           ELSE task' = [task EXCEPT ![a].pc = "request"]
    /\ UNCHANGED << now, looppc, tickres, upstream, joined, writers, file, log >>
    /\ UNCHANGED << loadVars, transformVars, configVars >>

\* main.rs, load_stop_data, lines 405-418: join_next hands out a task that
\* returned Ok; after the last one the request is answered.
EarlyJoinOk(a) ==
    /\ loadpc = "join"
    /\ a \notin joined
    /\ task[a].pc = "done"
    /\ joined' = joined \cup {a}
    /\ loadpc' = IF joined' = Agencies THEN "idle" ELSE "join"
    /\ UNCHANGED << now, looppc, tickres, upstream, task, writers, file, log >>
    /\ UNCHANGED << rd, ljoined, stopdata, loadres, prevres, resp, transformVars, configVars >>

\* main.rs, load_stop_data, line 406: join_next hands out a task that returned
\* Err; `result??` returns it, the JoinSet is dropped with the tasks still in
\* it, and a store_cache job already on the blocking pool runs on.
EarlyJoinErr(a) ==
    /\ loadpc = "join"
    /\ a \notin joined
    /\ task[a].pc = "failed"
    /\ joined' = joined \cup {a}
    /\ task' = [b \in Agencies |->
                  IF task[b].pc \in {"cache", "request", "store"}
                  THEN [task[b] EXCEPT !.pc = "aborted"]
                  ELSE task[b]]
    /\ writers' = [b \in Agencies |->
                  [w \in 1..Len(writers[b]) |-> [writers[b][w] EXCEPT !.attached = FALSE]]]
    /\ loadpc' = "idle"
    /\ UNCHANGED << now, looppc, tickres, upstream, file, log >>
    /\ UNCHANGED << rd, ljoined, stopdata, loadres, prevres, resp, transformVars, configVars >>

\* A request during which the feed would answer agency A.
RequestAnsweringA ==
    \E other \in {"ok", "err"} :
        EarlyLoadStart([a \in Agencies |-> IF a = "A" THEN "ok" ELSE other])

\* Requests served by the earlier design, the disk taking every write and the
\* feed answering agency A whenever it is asked.  The remote request and the
\* hand-over to store_cache (main.rs, lines 475-522) and store_cache itself
\* (main.rs, lines 447-462) are, line for line, those of api_client.rs.
EarlierNext ==
    \/ RequestAnsweringA
    \/ \E a \in Agencies : EarlyLoadCached(a)
    \/ \E a \in Agencies : FetchFail(a)
    \/ \E a \in Agencies, feed \in Feeds : FetchOkUpTo(a, feed, MaxOverlap)
    \/ \E a \in Agencies, w \in 1..MaxOverlap : StoreCreate(a, w)
    \/ \E a \in Agencies, w \in 1..MaxOverlap : StoreWrite(a, w)
    \/ \E a \in Agencies : EarlyJoinOk(a)
    \/ \E a \in Agencies : EarlyJoinErr(a)

EarlierSpec == EarlierInit /\ [][EarlierNext]_vars

\* ------------------------------------------------------- layout runs

\* Longest left column handed to data_to_layout.
MaxSections == 3

\* Sections of a configuration: two texts, three sections of the configured
\* agencies and one of an agency no stop is configured for.
SectionPool ==
    { TextSection("Inbound"), TextSection("Outbound"),
      AgencySection("A", "IB"), AgencySection("A", "OB"), AgencySection("B", "OB"),
      AgencySection("C", "IB") }

\* The right columns of the configurations tried.
RightColumns == { << >>, << TextSection("Outbound") >>, << AgencySection("B", "OB") >> }

\* Snapshots the StopData of a layout run is loaded from: one whose only
\* arrival is past, one with one direction, one with two.
LayoutSnapshots ==
    { [journeys |-> << OnLine7("1") >>, live_time |-> 0],
      [journeys |-> << OnLine7("2") >>, live_time |-> 0],
      [journeys |-> << OnLine7("3"),
                       Journey(Some("71A"), Some("OB"), Some("Airport"), Some("4"), "S1"),
                       Journey(Some("8"), Some("OB"), Some("Airport"), Some("5"), "S1") >>,
       live_time |-> 1] }

\* The StopData DataAccess::load_stop_data returns over these snapshots.
LoadedFrom(cached, iter, nowv) ==
    MergeResponse(
        MergeResponse(EmptyStopData,
                      transform_results(StopConfigOf("A"), iter["A"], cached["A"], nowv)),
        transform_results(StopConfigOf("B"), iter["B"], cached["B"], nowv))

LayoutInit ==
    /\ now = TransformNow
    /\ looppc = "start"
    /\ tickres = "none"
    /\ upstream = [a \in Agencies |-> "ok"]
    /\ task = [a \in Agencies |-> IdleTask]
    /\ joined = {}
    /\ writers = [a \in Agencies |-> << >>]
    /\ file = [p \in CachePaths |-> NoFile]
    /\ log = {}
    /\ LoadInit
    /\ ConfigInit
    /\ \E cached \in [Agencies -> LayoutSnapshots] :
          tin \in [stop_data : {LoadedFrom(cached, subs_iter, TransformNow)},
                   left : SeqsUpTo(SectionPool, MaxSections),
                   right : RightColumns]
    /\ tout = NotRun

\* One call of data_to_layout (handle_stops_png, line 116; handle_stops_html,
\* line 141).
Layout ==
    /\ ~tout.done
    /\ tout' = [done |-> TRUE,
                response |-> data_to_layout(tin.stop_data,
                                            [left |-> tin.left, right |-> tin.right], now)]
    /\ UNCHANGED << tin, refreshVars, file, loadVars, configVars >>

LayoutNext == Layout

LayoutSpec == LayoutInit /\ [][LayoutNext]_vars

\* ------------------------------------- requests answered by the handlers

\* The next request arrives once the one before it was answered.
NextRequest ==
    /\ loadres # NoResult => resp # NoAnswer
    /\ LoadStart

\* Requests to /stops.png and /stops.html answered one after another from a
\* cache at rest.
HandlerNext ==
    \/ NextRequest
    \/ \E a \in Agencies : ReadOpen(a)
    \/ \E a \in Agencies : ReadStep(a)
    \/ \E a \in Agencies : LoadJoinOk(a)
    \/ \E a \in Agencies : LoadJoinErr(a)
    \/ \E drawn, error_drawn \in BOOLEAN : AnswerPng(drawn, error_drawn)
    \/ \E written \in BOOLEAN : AnswerHtml(written)

HandlerSpec == ReadInit /\ [][HandlerNext]_vars

\* ------------------------------------------------------------ properties

CacheFailed(a) == [msg |-> "failed to cache data", agency |-> a] \in log

\* The complete snapshot file of a store_cache job for `journeys` begun at t.
SnapshotOf(journeys, t) ==
    [exists |-> TRUE, data |-> Serialize([journeys |-> journeys, live_time |-> t])]

\* C1: when a tick ends in which the feed answered agency a and failed agency
\* b (and the disk took a's write), a's task has run to completion and a's
\* file holds the records it fetched in this tick, and the loop has gone on to
\* its sleep.
C1_PartialFailureIsolation ==
    \A a, b \in Agencies :
        (/\ a # b
         /\ looppc = "sleep"
         /\ upstream[a] = "ok"
         /\ upstream[b] = "err"
         /\ ~CacheFailed(a))
        => /\ task[a].pc = "done"
           /\ file[cache_path(a)] = SnapshotOf(task[a].journeys, now)

\* C3: while an agency's fetch of the current tick has failed, no step of that
\* tick changes the agency's cache file.
C3_FailedFetchLeavesSnapshot ==
    [][\A a \in Agencies :
          (looppc = "join" /\ task[a].pc = "failed")
          => file'[cache_path(a)] = file[cache_path(a)]]_vars

\* C6: whenever the loop is in its sleep, every fan-out task of the tick just
\* ended has finished, with success or with failure.
C6_SleepAfterAllFinished ==
    looppc = "sleep" => \A a \in Agencies : task[a].pc \in {"done", "failed"}

\* Fetches of agency a in flight: its request, and the store_cache jobs on its
\* file that have not returned.
InFlight(a) == (IF task[a].pc = "request" THEN 1 ELSE 0) + Len(writers[a])

\* C7: at every moment at most one fetch (request plus cache write) of each
\* agency is in flight.
C7_AtMostOneFetchInFlight == \A a \in Agencies : InFlight(a) <= 1

\* C8: a failed cache write of agency a is logged and nothing more: a's task
\* still returns Ok, a tick that ends with an error then ends so because of
\* another agency's failed fetch, and the step in which the write fails
\* changes no other agency's task, jobs or file.
C8_CacheWriteFailureIsNotFatal ==
    [][\A a \in Agencies :
          /\ CacheFailed(a)' =>
                /\ task'[a].pc = "done"
                /\ tickres' = "err" => \E b \in Agencies \ {a} : task'[b].pc \in {"failed"}
          /\ (CacheFailed(a)' /\ ~CacheFailed(a)) =>
                /\ file' = file
                /\ \A b \in Agencies \ {a} : task'[b] = task[b] /\ writers'[b] = writers[b]]_vars

C8_Witness ==
    /\ CacheFailed("A")
    /\ looppc = "sleep"
    /\ tickres = "ok"
    /\ file[cache_path("B")] = SnapshotOf(task["B"].journeys, now)

\* C9: cache_path gives different agencies different files, and a step of a
\* store_cache job of one agency leaves every other agency's file as it was.
C9_WritesAreIndependent ==
    [][\A a, b \in Agencies :
          a # b =>
            /\ cache_path(a) # cache_path(b)
            /\ (writers'[a] # writers[a] /\ writers'[b] = writers[b])
                  => file'[cache_path(b)] = file[cache_path(b)]]_vars

C9_Witness ==
    /\ file[cache_path("A")] = SnapshotOf(task["A"].journeys, now)
    /\ task["A"].pc = "done"
    /\ task["A"].journeys # << >>
    /\ file[cache_path("B")] = PriorSnapshot

\* C2: no read task ever fails because the snapshot it read was empty,
\* partial or otherwise not a complete snapshot.
C2_ReadSeesCompleteSnapshot ==
    \A a \in Agencies : rd[a].error # "corrupt"

\* C4: the loop goes on for ever: it is in its sleep again and again and in a
\* tick again and again, whatever the fetches of the ticks did.
C4_LoopNeverTerminates ==
    /\ []<>(looppc = "sleep")
    /\ []<>(looppc = "join")

\* A tick has started while a job of an earlier tick, one that ended with an
\* error, is still on the blocking pool.
C4_Witness ==
    /\ looppc = "join"
    /\ now = MaxTime
    /\ \E a \in Agencies : task[a].pc = "request" /\ writers[a] # << >>

\* A store_cache job of agency a has written its last piece: a's snapshot is
\* replaced, with a new live_time.
Refreshed(a) == \E w \in 1..MaxWriters : StoreWrite(a, w) /\ Len(writers'[a]) < Len(writers[a])

\* C5: if from some tick on the feed answers A and fails B, A's snapshot is
\* written anew again and again.
C5_FailingAgencyDoesNotStarveOther ==
    (<>[](upstream["A"] = "ok" /\ upstream["B"] = "err"))
        => []<><<Refreshed("A")>>_vars

\* C10: every line group transform_results returns has its times in
\* ascending order and holds at most 4 of them.
C10_GroupsSortedAndTruncated ==
    (tout.done /\ tout.response.ok) =>
        \A l \in DOMAIN tout.response.upcoming :
            LET times == tout.response.upcoming[l]
            IN  /\ Len(times) <= 4
                /\ \A i \in 1..(Len(times) - 1) : times[i] <= times[i + 1]

\* Five surviving records of one line, the latest first: sorted and cut to 4.
C10_Witness ==
    /\ tout.done
    /\ tout.response.ok
    /\ tin.journeys = << OnLine7("12"), OnLine7("5"), OnLine7("3"), OnLine7("5"), OnLine7("3") >>
    /\ \E l \in DOMAIN tout.response.upcoming : tout.response.upcoming[l] = << 3, 3, 5, 5 >>

\* The records of the batch handed to transform_results that are complete,
\* carry a time that parses and is not before the clock reading, and whose
\* Line key is l.
Survivors(l) ==
    { i \in 1..Len(tin.journeys) :
        LET j == tin.journeys[i]
        IN  /\ Complete(j)
            /\ ParsesAsTime(j.expected_arrival_time[1])
            /\ ParseTime(j.expected_arrival_time[1]) >= tin.nowv
            /\ LineOf(StopConfigOf("A"), j, subs_iter["A"]) = l }

ArrivalOf(i) == ParseTime(tin.journeys[i].expected_arrival_time[1])

SurvivingLines ==
    { l \in { LineOf(StopConfigOf("A"), tin.journeys[i], subs_iter["A"]) :
                i \in { k \in 1..Len(tin.journeys) : Complete(tin.journeys[k]) } } :
        Survivors(l) # {} }

\* C11: whatever the order of the records, the group of every Line key with n
\* surviving arrivals holds exactly the min(4, n) soonest of them in
\* ascending order, equal times as separate entries: it is ascending, has
\* min(4, n) entries, holds no time more often than the survivors do, and
\* holds every survivor that is sooner than its last entry.
C11_FourSoonestInOrder ==
    (tout.done /\ tout.response.ok) =>
        /\ DOMAIN tout.response.upcoming = SurvivingLines
        /\ \A l \in DOMAIN tout.response.upcoming :
            LET times == tout.response.upcoming[l]
                surv == Survivors(l)
                InTimes(v) == Cardinality({ k \in 1..Len(times) : times[k] = v })
                InSurv(v) == Cardinality({ i \in surv : ArrivalOf(i) = v })
            IN  /\ Len(times) = Min(4, Cardinality(surv))
                /\ \A k \in 1..(Len(times) - 1) : times[k] <= times[k + 1]
                /\ \A k \in 1..Len(times) : InTimes(times[k]) <= InSurv(times[k])
                /\ \A i \in surv :
                      ArrivalOf(i) < times[Len(times)] => InTimes(ArrivalOf(i)) = InSurv(ArrivalOf(i))

\* Five survivors of one line, the two latest among the first four records.
C11_Witness ==
    /\ tout.done
    /\ tout.response.ok
    /\ tin.journeys = << OnLine7("12"), OnLine7("5"), OnLine7("3"), OnLine7("12"), OnLine7("5") >>
    /\ \E l \in DOMAIN tout.response.upcoming : tout.response.upcoming[l] = << 3, 5, 5, 12 >>

\* C12: no time transform_results returns is before the clock reading of the
\* run, and a batch whose records are all past yields no group at all.
C12_NoPastArrival ==
    (tout.done /\ tout.response.ok) =>
        /\ \A l \in DOMAIN tout.response.upcoming :
              \A k \in 1..Len(tout.response.upcoming[l]) : tout.response.upcoming[l][k] >= tin.nowv
        /\ (\A i \in 1..Len(tin.journeys) : tin.journeys[i] = OnLine7("1"))
              => tout.response.upcoming = EmptyMap

\* A record one clock unit in the past ahead of a future one of the same line.
C12_Witness ==
    /\ tout.done
    /\ tout.response.ok
    /\ tin.nowv = TransformNow
    /\ tin.journeys = << OnLine7("1"), OnLine7("3") >>
    /\ \E l \in DOMAIN tout.response.upcoming : tout.response.upcoming[l] = << 3 >>

\* A record with all four optional fields present.
AllPresent(j) ==
    /\ j.expected_arrival_time # None
    /\ j.line_ref # None
    /\ j.direction_ref # None
    /\ j.destination_name # None

\* C13: transform_results returns for a batch what it returns for the batch
\* without its records that lack one of the four fields (so such a record is
\* in no group and brings no error of its own), and a batch of such records
\* alone yields Ok with no group.
C13_AbsentFieldSkipsRecord ==
    tout.done =>
        /\ tout.response =
              transform_results(StopConfigOf("A"), subs_iter["A"],
                  [journeys |-> SelectSeq(tin.journeys, AllPresent), live_time |-> tin.live_time],
                  tin.nowv)
        /\ (\A i \in 1..Len(tin.journeys) : ~AllPresent(tin.journeys[i]))
              => (tout.response.ok /\ tout.response.upcoming = EmptyMap)

\* A sound record between one without destination and one without line.
C13_Witness ==
    /\ tout.done
    /\ tout.response.ok
    /\ tin.journeys = << Journey(Some("7"), Some("IB"), None, Some("soon"), "S1"),
                         OnLine7("5"),
                         Journey(None, Some("IB"), Some("Downtown"), Some("6"), "S1") >>
    /\ \E l \in DOMAIN tout.response.upcoming :
          /\ DOMAIN tout.response.upcoming = {l}
          /\ tout.response.upcoming[l] = << 5 >>

\* C14 as stated: transform_results fails exactly when some record of the
\* batch carries a present expected_arrival_time that does not parse.
C14_FailsOnAnyPresentBadTime ==
    tout.done =>
        (~tout.response.ok <=>
            \E i \in 1..Len(tin.journeys) :
                /\ tin.journeys[i].expected_arrival_time # None
                /\ ~ParsesAsTime(tin.journeys[i].expected_arrival_time[1]))

\* C14 amended: transform_results fails, with no group returned, exactly when
\* some record with all four fields present carries a time that does not
\* parse, wherever it sits in the batch.
C14_FailsOnCompleteBadTime ==
    tout.done =>
        /\ ~tout.response.ok <=>
              \E i \in 1..Len(tin.journeys) :
                  /\ AllPresent(tin.journeys[i])
                  /\ ~ParsesAsTime(tin.journeys[i].expected_arrival_time[1])
        /\ ~tout.response.ok => tout.response.upcoming = EmptyMap

\* The record whose time does not parse is the last of the batch.
C14_Witness ==
    /\ tout.done
    /\ ~tout.response.ok
    /\ tin.journeys = << OnLine7("5"),
                         Journey(Some("71A"), Some("OB"), Some("Airport"), Some("4"), "S1"),
                         OnLine7("soon") >>

\* Agency A's line-prefix rules in the order the configuration file lists them.
RulesAsConfigured == << << "71", "71X" >>, << "7", "7X" >> >>

\* C15: the line labels of the groups transform_results returns are those of
\* the surviving records resolved by the first rule, in configuration order,
\* whose prefix the raw line starts with (71A gives 71X), the raw label when
\* no rule matches.
C15_FirstRuleInConfigurationOrder ==
    (tout.done /\ tout.response.ok) =>
        { l.line : l \in DOMAIN tout.response.upcoming }
          = { SubstituteLine(tin.journeys[i].line_ref[1], RulesAsConfigured, 1) :
                i \in { k \in 1..Len(tin.journeys) :
                          /\ AllPresent(tin.journeys[k])
                          /\ ParseTime(tin.journeys[k].expected_arrival_time[1]) >= tin.nowv } }

\* C16: a read of agency A's snapshot begun after store_cache has written it,
\* with no write since, ends with neither an open nor a deserialize error, and
\* the Cached value it has read holds the journeys that were written, in
\* their order and with every optional field present or absent as written,
\* and the live_time store_cache took.
C16_CacheRoundTrip ==
    rd["A"].pc \in {"ok", "err"} =>
        /\ rd["A"].error \notin {"not_found", "corrupt"}
        /\ Deserialize(rd["A"].buf) = [journeys |-> task["A"].journeys, live_time |-> now]

\* Three records read back, one with absent fields and an empty direction,
\* at a two-digit clock reading.
C16_Witness ==
    /\ rd["A"].pc = "ok"
    /\ now > 9
    /\ task["A"].journeys = << OnLine7("2"),
                               Journey(Some("7"), Some(""), None, None, "S1"),
                               Journey(None, None, None, None, "S1") >>
    /\ Deserialize(rd["A"].buf).journeys = task["A"].journeys

\* C17: a load called again after a load has returned, the cache and the
\* clock unchanged in between, returns what the first call returned: Ok both
\* times with equal StopData, or an error both times, whatever the order in
\* which the read tasks of either call were joined.
C17_RereadIsIdempotent ==
    (prevres # NoResult /\ loadres # NoResult) =>
        /\ loadres.ok = prevres.ok
        /\ loadres.data = prevres.data

\* Two loads that each merged both agencies, with lines in a shared direction.
C17_Witness ==
    /\ prevres.ok
    /\ loadres.ok
    /\ DOMAIN loadres.data = Agencies
    /\ \A a \in Agencies : "IB" \in DOMAIN loadres.data[a].directions
    /\ loadres.data["A"].live_time # loadres.data["B"].live_time

\* C18: a read task whose cache file is present and well-formed fails, if
\* it fails, in transform_results only: load_cached returns the snapshot
\* however old its live_time is.
C18_NoStalenessRejection ==
    \A a \in Agencies :
        LET f == file[cache_path(a)]
        IN  (f.exists /\ WellFormed(f.data) /\ rd[a].pc = "err") => rd[a].error = "time_parse"

\* A snapshot two sleeps (six minutes) old has been read and transformed.
C18_Witness ==
    \E a \in Agencies :
        /\ rd[a].pc = "ok"
        /\ now - rd[a].response.live_time = MaxTime
        /\ rd[a].response.upcoming # EmptyMap

\* The read task of agency a, run on the cache as it is, would return an error.
ReadFails(a) ==
    LET f == file[cache_path(a)]
    IN  \/ ~f.exists
        \/ ~WellFormed(f.data)
        \/ ~transform_results(StopConfigOf(a), subs_iter[a], Deserialize(f.data), now).ok

\* The read task of agency a would return at least one line group.
HasArrivals(a) ==
    /\ ~ReadFails(a)
    /\ transform_results(StopConfigOf(a), subs_iter[a],
                         Deserialize(file[cache_path(a)].data), now).upcoming # EmptyMap

\* C19: when one agency has no cache file and every other agency has a
\* readable snapshot with arrivals, a load returns Ok with a StopData that
\* holds exactly the other agencies.
C19_AbsentAgencyIsOmitted ==
    \A a \in Agencies :
        (/\ loadres # NoResult
         /\ ~file[cache_path(a)].exists
         /\ \A b \in Agencies \ {a} : HasArrivals(b))
        => /\ loadres.ok
           /\ DOMAIN loadres.data = Agencies \ {a}

\* C20: when the read task of some agency fails, a load returns an error
\* and no StopData, and the error names an agency whose read task fails.
C20_LoadFailsNamingAgency ==
    (loadres # NoResult /\ \E a \in Agencies : ReadFails(a)) =>
        /\ ~loadres.ok
        /\ loadres.data = EmptyStopData
        /\ loadres.failed \in { a \in Agencies : ReadFails(a) }

\* Agency A is readable and has arrivals, agency B's transform fails.
C20_Witness ==
    /\ ~loadres.ok
    /\ loadres.failed = "B"
    /\ loadres.error = "time_parse"
    /\ HasArrivals("A")

\* The agencies of the configured StopQuery entries.
ConfiguredAgencies == { StopConfigOf(a).agency : a \in Agencies }

\* C21: every agency key of a StopData returned by a load is the agency of
\* some configured StopQuery, and so is the agency of every line key in it.
C21_OnlyConfiguredAgencies ==
    loadres.ok =>
        /\ DOMAIN loadres.data \subseteq ConfiguredAgencies
        /\ \A a \in DOMAIN loadres.data :
             \A d \in DOMAIN loadres.data[a].directions :
                \A k \in 1..Len(loadres.data[a].directions[d]) :
                    loadres.data[a].directions[d][k].line.agency \in ConfiguredAgencies

\* A first load has returned a StopData with an entry for every agency.
C21_Witness ==
    /\ loadres.ok
    /\ prevres = NoResult
    /\ DOMAIN loadres.data = Agencies

\* C22: a step of the read path (a load starting, a read task opening or
\* reading its file, the join returning Ok or Err) puts no fetch task into
\* its request, queues no cache write and leaves every cache file as it is.
C22_ReadTouchesNeitherUpstreamNorCache ==
    [][loadVars' # loadVars =>
          /\ file' = file
          /\ task' = task
          /\ writers' = writers
          /\ upstream' = upstream]_vars

\* A load has failed on a missing cache file while the refresh loop's tick is
\* under way.
C22_Witness ==
    /\ ~loadres.ok
    /\ loadres.error = "not_found"
    /\ \E a \in Agencies : ~file[cache_path(a)].exists
    /\ looppc = "join"

\* C23: the live_time of an agency in a returned StopData is the live_time
\* of the snapshot its read task read, and that is the clock value store_cache
\* took when it wrote: (1) a store_cache job stamps its snapshot with the
\* clock as it begins; (2) when the job of a fetch has written its last piece,
\* that piece is the stamp, and it is the live_time of the file if the file
\* can be read; (3) a read task takes each piece from
\* the file as it is; (4) the response carries the live_time that was read;
\* (5) the merge copies it into the StopData.
C23_LiveTimeIsWriteTime ==
    [][\A a \in Agencies :
          LET p == cache_path(a)
          IN  /\ \A w \in 1..Len(writers[a]) :
                    (/\ writers[a][w].pos = -1
                     /\ Len(writers'[a]) = Len(writers[a])
                     /\ writers'[a][w].pos = 0)
                    => writers'[a][w].live_time = now
              /\ \A w \in 1..Len(writers[a]) :
                    (/\ writers[a][w].attached
                     /\ Len(writers'[a]) < Len(writers[a])
                     /\ task[a].pc = "store"
                     /\ task'[a].pc = "done")
                    => /\ file'[p].data[Len(writers[a][w].journeys) + 1] = LTok(writers[a][w].live_time)
                       /\ WellFormed(file'[p].data)
                            => Deserialize(file'[p].data).live_time = writers[a][w].live_time
              /\ (rd[a].pc = "read" /\ rd'[a].pc = "read" /\ rd'[a] # rd[a])
                    => rd'[a].buf = Append(rd[a].buf, file[p].data[rd[a].pos + 1])
              /\ (rd[a].pc = "read" /\ rd'[a].pc = "ok")
                    => rd'[a].response.live_time = ParseTime(rd[a].buf[Len(rd[a].buf)].live_time)
              /\ (loadpc = "join" /\ loadres'.ok /\ a \in DOMAIN loadres'.data)
                    => loadres'.data[a].live_time = rd[a].response.live_time]_vars

\* During the second tick a load has returned an agency whose snapshot was
\* written in the first.
C23_Witness ==
    /\ loadres.ok
    /\ now = 2
    /\ \E a \in DOMAIN loadres.data : loadres.data[a].live_time = 1

\* The journeys of `feed` at one of `stops`, in the order of the feed.
RECURSIVE KeepConfigured(_, _)
KeepConfigured(feed, stops) ==
    IF feed = << >> THEN << >>
    ELSE IF Head(feed).stop_point_ref \in stops
         THEN << Head(feed) >> \o KeepConfigured(Tail(feed), stops)
         ELSE KeepConfigured(Tail(feed), stops)

\* C24: when the feed answers an agency's request, the records the task keeps
\* and hands to store_cache are exactly the feed's journeys at the agency's
\* configured stops, in feed order; and every piece the store_cache job writes
\* is the piece of those records' serialization that belongs at its place.
C24_StoredRecordsAreTheConfiguredStops ==
    [][\A a \in Agencies :
          /\ \A feed \in FetchFeeds :
                FetchOkUpTo(a, feed, MaxOverlap) =>
                    /\ task'[a].journeys = KeepConfigured(feed, StopConfigOf(a).stops)
                    /\ writers'[a][Len(writers'[a])].journeys = task'[a].journeys
          /\ \A w \in 1..Len(writers[a]) :
                LET job == writers[a][w]
                IN  (job.attached /\ job.pos >= 0 /\ StoreWrite(a, w))
                    => /\ job.journeys = task[a].journeys
                       /\ file'[cache_path(a)].data[job.pos + 1] =
                            IF job.pos < Len(task[a].journeys)
                            THEN JTok(task[a].journeys[job.pos + 1])
                            ELSE LTok(job.live_time)]_vars

\* Agency A's snapshot holds a line 8 record followed by a line 7 record.
C24_Witness ==
    /\ task["A"].pc = "done"
    /\ Len(task["A"].journeys) = 2
    /\ task["A"].journeys[1].line_ref = Some("8")
    /\ task["A"].journeys[2].line_ref = Some("7")
    /\ file[cache_path("A")].exists
    /\ Deserialize(file[cache_path("A")].data).journeys = task["A"].journeys

\* C25: when the store_cache job of an agency's fetch has written its last
\* piece, the agency's file is the snapshot of that job and nothing else: the
\* records of the fetch and the live_time the job took.
C25_WriteReplacesWholesale ==
    [][\A a \in Agencies :
          \A w \in 1..Len(writers[a]) :
              (/\ writers[a][w].attached
               /\ Len(writers'[a]) < Len(writers[a])
               /\ task[a].pc = "store"
               /\ task'[a].pc = "done"
               /\ ~CacheFailed(a)')
              => file'[cache_path(a)] = SnapshotOf(task[a].journeys, writers[a][w].live_time)]_vars

\* C26: a tick begins by putting one request per agency in flight, with no
\* request of an earlier tick still in flight; no other step puts a request in
\* flight; and after a tick has ended, with or without a failure, the next one
\* begins only out of the loop's sleep.
C26_OneRequestPerAgencyPerTick ==
    [][/\ (looppc # "join" /\ looppc' = "join")
            => /\ \A a \in Agencies : task[a].pc # "request" /\ task'[a].pc = "request"
               /\ tickres # "none" => looppc = "sleep"
       /\ \A a \in Agencies :
            (task[a].pc # "request" /\ task'[a].pc = "request")
            => (looppc # "join" /\ looppc' = "join")]_vars

\* Agency B's fetch has failed, the tick is over and the loop sleeps; B's task
\* stays failed.
C26_Witness ==
    /\ looppc = "sleep"
    /\ tickres = "err"
    /\ now = 2
    /\ task["B"].pc = "failed"
    /\ task["A"].pc = "done"

\* C27: no step takes a cache file away; a tick that ends with every fetch
\* and every cache write done leaves a file for every agency; a read task
\* fails with "not found" only when its file does not exist, and a load only
\* when a read task did.  So from the end of such a tick on no load fails
\* with "not found".
C27_NoNotFoundAfterFullTick ==
    [][/\ \A p \in CachePaths : file[p].exists => file'[p].exists
       /\ (/\ looppc = "join"
           /\ looppc' = "sleep"
           /\ tickres' = "ok"
           /\ \A a \in Agencies : ~CacheFailed(a)')
          => \A a \in Agencies : file'[cache_path(a)].exists
       /\ \A a \in Agencies :
            (rd[a].pc = "open" /\ rd'[a].pc = "err" /\ rd'[a].error = "not_found")
            => ~file[cache_path(a)].exists
       /\ (loadres' # loadres /\ loadres'.error = "not_found")
            => rd[loadres'.failed].error = "not_found"]_vars

\* After the first tick has ended well and left agency A's snapshot, the read
\* tasks of a load have opened every agency's file.
C27_Witness ==
    /\ looppc = "sleep"
    /\ tickres = "ok"
    /\ now = 1
    /\ \A a \in Agencies : rd[a].pc = "read"
    /\ file[cache_path("A")] = SnapshotOf(task["A"].journeys, 1)

\* The loop's warning carries the error of agency a's fetch.
FetchFailureLogged(a) == [msg |-> "failed to load stop data", agency |-> a] \in log

\* C28: when a tick has ended, every agency whose fetch failed in it has its
\* error in the log.
C28_EveryFailureIsLogged ==
    looppc = "sleep" =>
        \A a \in Agencies : task[a].pc = "failed" => FetchFailureLogged(a)

\* C29: while an agency's request of the current tick has not returned, the
\* tick's join is not passed, whatever the other tasks have returned.
C29_PendingRequestHoldsTheJoin ==
    [][(looppc = "join" /\ \E a \in Agencies : task[a].pc = "request")
          => looppc' = "join"]_vars

\* The records of agency a's snapshot, as the cache file holds them.
StoredJourneys(a) == Deserialize(file[cache_path(a)].data).journeys

\* The records of agency a's snapshot that survive the filters of the
\* transform: all four fields present and an arrival not in the past.
SurvivingRecords(a) ==
    { i \in 1..Len(StoredJourneys(a)) :
        /\ AllPresent(StoredJourneys(a)[i])
        /\ ParseTime(StoredJourneys(a)[i].expected_arrival_time[1]) >= now }

\* The key of such a record after the substitutions.
KeyOfRecord(a, i) == LineOf(StopConfigOf(a), StoredJourneys(a)[i], subs_iter[a])

\* The surviving records of agency a's snapshot with key l.
RecordsOfKey(a, l) == { i \in SurvivingRecords(a) : KeyOfRecord(a, i) = l }

TimeOfRecord(a, i) == ParseTime(StoredJourneys(a)[i].expected_arrival_time[1])

\* Where the line groups of a StopData sit: agency, direction, position.
GroupsOf(data) ==
    UNION { UNION { { << a, d, k >> : k \in 1..Len(data[a].directions[d]) } :
                    d \in DOMAIN data[a].directions } :
            a \in DOMAIN data }

GroupAt(data, g) == data[g[1]].directions[g[2]][g[3]]

\* A returned StopData files every group under its key's agency and
\* direction and holds no key twice.
GroupsAreFiledByKey(data) ==
    \A g \in GroupsOf(data) :
        /\ GroupAt(data, g).line.agency = g[1]
        /\ GroupAt(data, g).line.direction = g[2]
        /\ \A h \in GroupsOf(data) : GroupAt(data, h).line = GroupAt(data, g).line => h = g

\* C30 as stated: groups are filed by their key, no key occurs twice, and
\* every surviving record's arrival is in the one group of its key.
C30_EverySurvivorIsInItsGroup ==
    loadres.ok =>
        /\ GroupsAreFiledByKey(loadres.data)
        /\ \A a \in Agencies : \A i \in SurvivingRecords(a) :
             \E g \in GroupsOf(loadres.data) :
                /\ GroupAt(loadres.data, g).line = KeyOfRecord(a, i)
                /\ \E n \in 1..Len(GroupAt(loadres.data, g).upcoming) :
                      GroupAt(loadres.data, g).upcoming[n] = TimeOfRecord(a, i)

\* C30: groups are filed by their key, no key occurs twice, every surviving
\* record's key has its one group, and that group holds the arrivals of the
\* surviving records of that key, all of them when there are at most four
\* and otherwise four of them with none of the others sooner.
C30_SurvivorsUpToFourAreInTheirGroup ==
    loadres.ok =>
        /\ GroupsAreFiledByKey(loadres.data)
        /\ \A g \in GroupsOf(loadres.data) :
             LET times == GroupAt(loadres.data, g).upcoming
                 recs == RecordsOfKey(g[1], GroupAt(loadres.data, g).line)
             IN  /\ Len(times) = Min(Cardinality(recs), MaxUpcoming)
                 /\ \A n \in 1..Len(times) : \E i \in recs : TimeOfRecord(g[1], i) = times[n]
        /\ \A a \in Agencies : \A i \in SurvivingRecords(a) :
             \E g \in GroupsOf(loadres.data) :
                LET times == GroupAt(loadres.data, g).upcoming
                IN  /\ GroupAt(loadres.data, g).line = KeyOfRecord(a, i)
                    /\ \/ \E n \in 1..Len(times) : times[n] = TimeOfRecord(a, i)
                       \/ /\ Len(times) = MaxUpcoming
                          /\ \A n \in 1..Len(times) : times[n] <= TimeOfRecord(a, i)

\* A load has returned, for agency A, one group of four arrivals made of five
\* surviving records of raw lines 7 and 72, and for agency B a group for each
\* of the two lines.
C30_Witness ==
    /\ loadres.ok
    /\ \E g \in GroupsOf(loadres.data) :
          /\ g[1] = "A"
          /\ Len(GroupAt(loadres.data, g).upcoming) = MaxUpcoming
          /\ Cardinality(RecordsOfKey("A", GroupAt(loadres.data, g).line)) = 5
    /\ "B" \in DOMAIN loadres.data
    /\ "IB" \in DOMAIN loadres.data["B"].directions
    /\ Len(loadres.data["B"].directions["IB"]) = 2

\* C31: in a returned StopData the line groups of every agency's direction
\* are in strictly ascending order of their keys (line, then agency, then
\* direction, then destination).
C31_GroupsAscendByLineKey ==
    loadres.ok =>
        \A a \in DOMAIN loadres.data :
            \A d \in DOMAIN loadres.data[a].directions :
                LET groups == loadres.data[a].directions[d]
                IN  \A k \in 1..(Len(groups) - 1) : LineLess(groups[k].line, groups[k + 1].line)

\* Agency B's inbound direction holds the groups of lines 7 and 72, read from
\* a snapshot whose first record is of line 72.
C31_Witness ==
    /\ loadres.ok
    /\ "B" \in DOMAIN loadres.data
    /\ "IB" \in DOMAIN loadres.data["B"].directions
    /\ Len(loadres.data["B"].directions["IB"]) = 2
    /\ loadres.data["B"].directions["IB"][1].line.line = "7"
    /\ StoredJourneys("B")[1].line_ref = Some("72")

\* The destination a raw destination is to be shown as: the table's value
\* when the raw string is a key of the table, the raw string otherwise.
ShownDestination(raw) ==
    IF \E key \in DOMAIN DestinationSubs : key = raw
    THEN DestinationSubs[CHOOSE key \in DOMAIN DestinationSubs : key = raw]
    ELSE raw

\* C32: every record's arrival is in a group whose destination is the table's
\* value for the record's raw destination if that is a key and the raw
\* destination if not, no group has another destination, and there is one
\* group per destination so obtained (the records share line and direction).
C32_DestinationSubstitutedOnce ==
    tout.done =>
        LET up == tout.response.upcoming
            shown == { ShownDestination(tin.journeys[i].destination_name[1]) :
                          i \in 1..Len(tin.journeys) }
        IN  /\ \A i \in 1..Len(tin.journeys) :
                  \E l \in DOMAIN up :
                     /\ l.destination = ShownDestination(tin.journeys[i].destination_name[1])
                     /\ \E n \in 1..Len(up[l]) :
                           up[l][n] = ParseTime(tin.journeys[i].expected_arrival_time[1])
            /\ \A l \in DOMAIN up : l.destination \in shown
            /\ Cardinality(DOMAIN up) = Cardinality(shown)

\* A batch with raw destinations Downtown, Center and Dwntn has given two
\* groups: Dwntn with two arrivals and DT with one.
C32_Witness ==
    /\ tout.done
    /\ { tin.journeys[i].destination_name[1] : i \in 1..Len(tin.journeys) }
          = {"Downtown", "Center", "Dwntn"}
    /\ \E l \in DOMAIN tout.response.upcoming :
          l.destination = "Dwntn" /\ Len(tout.response.upcoming[l]) = 2
    /\ \E l \in DOMAIN tout.response.upcoming :
          l.destination = "DT" /\ Len(tout.response.upcoming[l]) = 1

\* Agency a's snapshot is present, readable and at most five minutes old.
FreshSnapshot(a) ==
    /\ file[cache_path(a)].exists
    /\ WellFormed(file[cache_path(a)].data)
    /\ now - Deserialize(file[cache_path(a)].data).live_time <= StaleAfter

\* C33: in the earlier design a task answers from the cache, with no remote
\* request and no write, exactly when the snapshot is present, readable and at
\* most five minutes old; otherwise it goes to the remote request, which is
\* made in no other case; and when the request has succeeded and its
\* store_cache job has written its last piece, the file is the snapshot of the
\* fetched records.
C33_CacheWithinFiveMinutesElseFetch ==
    [][\A a \in Agencies :
          /\ (task[a].pc = "cache" /\ task'[a].pc = "done")
                => /\ FreshSnapshot(a)
                   /\ task'[a].journeys = Deserialize(file[cache_path(a)].data).journeys
                   /\ writers' = writers /\ file' = file
          /\ (task[a].pc = "cache" /\ task'[a].pc = "request") => ~FreshSnapshot(a)
          /\ (task[a].pc # "request" /\ task'[a].pc = "request") => task[a].pc = "cache"
          /\ \A w \in 1..Len(writers[a]) :
                (/\ writers[a][w].attached
                 /\ Len(writers'[a]) < Len(writers[a])
                 /\ task[a].pc = "store"
                 /\ task'[a].pc = "done")
                => file'[cache_path(a)] = SnapshotOf(task[a].journeys, writers[a][w].live_time)]_vars

\* C34: when load_stop_data fails the handler answers: /stops.png with status
\* 500 and the error image, /stops.html with status 500; the answer leaves the
\* refresh loop and the cache as they were, and the next request can be taken.
C34_FailedLoadIsAnswered ==
    [][ (loadres # NoResult /\ ~loadres.ok /\ resp = NoAnswer /\ resp' # NoAnswer) =>
            /\ resp'.status = 500
            /\ resp'.endpoint = "/stops.png" =>
                  resp'.body = "error_png" /\ resp'.content_type = "image/png"
            /\ file' = file
            /\ refreshVars' = refreshVars
            /\ loadpc' = "idle" ]_vars

\* C35: a returned StopData holds no empty container: every agency entry has a
\* direction, every direction a line group, every group an arrival; an agency
\* has an entry exactly when its snapshot holds a surviving arrival, so an
\* agency whose readable snapshot holds none is absent and its live_time is
\* not reported.
C35_NoEmptyEntries ==
    loadres.ok =>
        /\ \A a \in DOMAIN loadres.data :
              /\ DOMAIN loadres.data[a].directions # {}
              /\ \A d \in DOMAIN loadres.data[a].directions :
                    /\ Len(loadres.data[a].directions[d]) >= 1
                    /\ \A k \in 1..Len(loadres.data[a].directions[d]) :
                          Len(loadres.data[a].directions[d][k].upcoming) >= 1
        /\ \A a \in Agencies : a \in DOMAIN loadres.data <=> SurvivingRecords(a) # {}

\* A load returned Ok while agency A's snapshot, readable and stamped, held
\* only a past arrival: StopData has an entry for B and none for A.
C35_Witness ==
    /\ loadres.ok
    /\ file[cache_path("A")].exists
    /\ Len(StoredJourneys("A")) >= 1
    /\ SurvivingRecords("A") = {}
    /\ "A" \notin DOMAIN loadres.data
    /\ "B" \in DOMAIN loadres.data

\* The captured_at agency a's cache file holds: the live_time of a complete
\* snapshot, none while the file is missing or incomplete.
CapturedAt(f, a) ==
    IF f[cache_path(a)].exists /\ WellFormed(f[cache_path(a)].data)
    THEN Some(Deserialize(f[cache_path(a)].data).live_time)
    ELSE None

\* C36: over any run of refresh ticks an agency's persisted captured_at never
\* decreases, and it changes only in a tick in which that agency's own fetch
\* succeeded.
C36_CapturedAtMonotoneAndOwn ==
    [][\A a \in Agencies :
          /\ (CapturedAt(file, a) # None /\ CapturedAt(file', a) # None)
             => CapturedAt(file', a)[1] >= CapturedAt(file, a)[1]
          /\ (CapturedAt(file', a) # None /\ CapturedAt(file', a) # CapturedAt(file, a))
             => looppc = "join" /\ task[a].pc \in {"store", "done"}]_vars

\* An agency section finds its agency and its direction in the StopData; a
\* text section needs nothing.
Found(section, data) ==
    \/ section.kind = "text"
    \/ /\ section.agency \in DOMAIN data
       /\ section.direction \in DOMAIN data[section.agency].directions

\* The row is the one of this section: its text, or the direction's line
\* groups in their order with the minutes to each arrival.
RowOfSection(row, section, data, nowv) ==
    IF section.kind = "text" THEN row = TextRow(section.text)
    ELSE LET groups == data[section.agency].directions[section.direction]
         IN  /\ row.kind = "agency"
             /\ Len(row.lines) = Len(groups)
             /\ \A k \in 1..Len(groups) :
                   /\ row.lines[k].id = groups[k].line.line
                   /\ row.lines[k].destination = groups[k].line.destination
                   /\ row.lines[k].departure_minutes =
                         [n \in 1..Len(groups[k].upcoming) |-> groups[k].upcoming[n] - nowv]

\* The rows are those of the found sections, one each, in section order.
RowsInSectionOrder(rows, sections, data, nowv) ==
    LET found == { i \in 1..Len(sections) : Found(sections[i], data) }
    IN  /\ Len(rows) = Cardinality(found)
        /\ \A i \in found :
              RowOfSection(rows[Cardinality({ j \in found : j <= i })], sections[i], data, nowv)

\* C37: data_to_layout returns a layout whose columns hold, in configuration
\* section order, one row for every text section and one for every agency
\* section whose agency and direction are in the StopData; a section whose
\* agency or direction is missing adds no row and fails nothing, and the rows
\* of the other sections are as they would be without it.
C37_RowsFollowSections ==
    tout.done =>
        /\ RowsInSectionOrder(tout.response.left, tin.left, tin.stop_data, now)
        /\ RowsInSectionOrder(tout.response.right, tin.right, tin.stop_data, now)

\* A layout was built for a left column of an agency section whose direction
\* is missing, then one whose agency is missing, then a text: the column has
\* the text's row alone.
C37_Witness ==
    /\ tout.done
    /\ Len(tin.left) = 3
    /\ tin.left[1].kind = "agency"
    /\ tin.left[1].agency \in DOMAIN tin.stop_data
    /\ tin.left[1].direction \notin DOMAIN tin.stop_data[tin.left[1].agency].directions
    /\ tin.left[2].kind = "agency"
    /\ tin.left[2].agency \notin DOMAIN tin.stop_data
    /\ tin.left[3].kind = "text"
    /\ tout.response.left = << TextRow(tin.left[3].text) >>
    /\ Len(tout.response.right) = 1

====
